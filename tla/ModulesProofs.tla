---------------------------- MODULE ModulesProofs ----------------------------
(***************************************************************************)
(* Theorems about the literals of Modules, about the definitions of the    *)
(* program, and about its processes' tables of globals, for every number   *)
(* of threads, modules and processes, all contents, and any bounds.        *)
(***************************************************************************)
EXTENDS Modules, SequenceTheorems, WellFoundedInduction, TLAPS

-----------------------------------------------------------------------------
(* The invariant *)

GlobalType == [mutable : BOOLEAN, size : Nat, memory : Data \cup {NoMemory}]

Lookers  == [pc : {"look"}, mod : Modules, at : Nat, data : Data]
Definers == [pc : {"size", "memory"}, mod : Modules, at : Nat, data : Data \cup {Zero}, literal : BOOLEAN]
Others   == [pc : {"idle", "crashed"}] \cup [pc : {"declare"}, mod : Modules, name : Names]

Literal == [thread : Threads, mod : Modules, global : Nat, data : Data, added : BOOLEAN]

TypeOK ==
    /\ bound \in BoundKinds
    /\ globals \in [Modules -> Seq(GlobalType)]
    /\ builder \in [Threads -> Lookers \cup Definers \cup Others]
    /\ literals \subseteq Literal

Exists(m, g) == g \in 1..Len(globals[m])

(* A global has no memory until the thread that defines it, in state b, is   *)
(* done.                                                                     *)
DefinerOK(lists, b) ==
    LET g == lists[b.mod][b.at]
    IN  /\ b.at \in 1..Len(lists[b.mod])
        /\ g.memory = NoMemory
        /\ b.pc = "memory" => g.size = DataSize(b.data)
        /\ b.literal => ~g.mutable /\ b.data \in Data

DefinersOK == \A t \in Threads : builder[t].pc \in {"size", "memory"} => DefinerOK(globals, builder[t])

(* No two threads define the same global.                                    *)
DefinersApart ==
    \A t, u \in Threads :
        /\ builder[t].pc \in {"size", "memory"}
        /\ builder[u].pc \in {"size", "memory"}
        /\ builder[t].mod = builder[u].mod
        /\ builder[t].at = builder[u].at
        => t = u

LookersOK == \A t \in Threads : builder[t].pc = "look" => builder[t].at <= Len(globals[builder[t].mod])

LiteralsExist == \A l \in literals : Exists(l.mod, l.global)

Holds(l) ==
    LET g == globals[l.mod][l.global]
    IN  ~g.mutable /\ g.size = DataSize(l.data) /\ g.memory = l.data

Inv == TypeOK /\ DefinersOK /\ DefinersApart /\ LookersOK /\ LiteralsExist /\ LiteralsHoldTheirData

(* The copies that the thread t has added of the literal it works on in      *)
(* state b.                                                                  *)
Copies(t, b) == {l \in literals : l.added /\ l.thread = t /\ l.mod = b.mod /\ l.data = b.data}

(* A thread that looks for a literal has not yet come to a copy it added,    *)
(* so one that comes to the end has added none.                              *)
CopiesOK(t, b) ==
    /\ b.pc = "look" => \A l \in Copies(t, b) : l.global <= b.at
    /\ b.pc \in {"size", "memory"} /\ b.literal => Copies(t, b) = {}

CopiesInv == OneCopyPerThread /\ \A t \in Threads : CopiesOK(t, builder[t])

-----------------------------------------------------------------------------
(* States of threads *)

LEMMA BuilderStates ==
    ASSUME TypeOK, NEW t \in Threads
    PROVE  /\ Is(t, "look") => builder[t] \in Lookers
           /\ builder[t].pc \in {"size", "memory"} => builder[t] \in Definers
           /\ Is(t, "size") \/ Is(t, "memory") => builder[t] \in Definers
<1>1. builder[t] \in Lookers \cup Definers \cup Others BY DEF TypeOK
<1>2. CASE builder[t] \in Lookers BY <1>2 DEF Lookers, Is
<1>3. CASE builder[t] \in Definers BY <1>3 DEF Definers, Is
<1>4. CASE builder[t] \in Others BY <1>4 DEF Others, Is
<1> QED BY <1>1, <1>2, <1>3, <1>4

-----------------------------------------------------------------------------
(* What happens to globals *)

(* Nothing that has memory changes.                                          *)
Keeps ==
    /\ globals' \in [Modules -> Seq(GlobalType)]
    /\ \A m \in Modules :
          /\ Len(globals[m]) \in Nat /\ Len(globals'[m]) \in Nat
          /\ Len(globals'[m]) >= Len(globals[m])
          /\ \A g \in 1..Len(globals[m]) :
                globals[m][g].memory # NoMemory => globals'[m][g] = globals[m][g]

LEMMA Unchanged == ASSUME TypeOK, globals' = globals PROVE Keeps
BY LenProperties DEF TypeOK, Keeps

LEMMA Added ==
    ASSUME TypeOK, NEW m \in Modules, NEW mutable \in BOOLEAN,
           globals' = [globals EXCEPT ![m] = Append(globals[m], Declared(mutable))]
    PROVE  /\ Keeps
           /\ Len(globals'[m]) = Len(globals[m]) + 1
           /\ globals'[m][Len(globals[m]) + 1] = Declared(mutable)
           /\ \A n \in Modules : \A g \in 1..Len(globals[n]) : globals'[n][g] = globals[n][g]
<1>1. Declared(mutable) \in GlobalType BY DEF Declared, GlobalType
<1>2. globals[m] \in Seq(GlobalType) /\ \A n \in Modules : globals[n] \in Seq(GlobalType) BY DEF TypeOK
<1>3. globals'[m] = Append(globals[m], Declared(mutable)) /\ \A n \in Modules : n # m => globals'[n] = globals[n]
  BY DEF TypeOK
<1>4. /\ globals'[m] \in Seq(GlobalType)
      /\ Len(globals'[m]) = Len(globals[m]) + 1
      /\ \A g \in 1..Len(globals[m]) : globals'[m][g] = globals[m][g]
      /\ globals'[m][Len(globals[m]) + 1] = Declared(mutable)
  BY <1>1, <1>2, <1>3, AppendProperties
<1>5. globals' \in [Modules -> Seq(GlobalType)] BY <1>2, <1>4 DEF TypeOK
<1>6. \A n \in Modules : \A g \in 1..Len(globals[n]) : globals'[n][g] = globals[n][g] BY <1>3, <1>4
<1>7. \A n \in Modules : Len(globals[n]) \in Nat BY <1>2, LenProperties
<1>8. \A n \in Modules : Len(globals'[n]) \in Nat /\ Len(globals'[n]) >= Len(globals[n])
  BY <1>3, <1>4, <1>7
<1> QED BY <1>4, <1>5, <1>6, <1>7, <1>8 DEF Keeps

(* A global without memory is defined.                                       *)
LEMMA Defined ==
    ASSUME TypeOK, NEW m \in Modules, NEW g \in 1..Len(globals[m]), NEW new \in GlobalType,
           globals[m][g].memory = NoMemory,
           globals' = [globals EXCEPT ![m] = [globals[m] EXCEPT ![g] = new]]
    PROVE  /\ Keeps
           /\ globals'[m][g] = new
           /\ \A n \in Modules : Len(globals'[n]) = Len(globals[n])
           /\ \A n \in Modules : \A h \in 1..Len(globals[n]) :
                 n # m \/ h # g => globals'[n][h] = globals[n][h]
<1>1. \A n \in Modules : globals[n] \in Seq(GlobalType) BY DEF TypeOK
<1>2. \A n \in Modules : /\ Len(globals[n]) \in Nat
                         /\ globals[n] \in [1..Len(globals[n]) -> GlobalType]
  BY <1>1, LenProperties
<1>3. globals'[m] = [globals[m] EXCEPT ![g] = new] /\ \A n \in Modules : n # m => globals'[n] = globals[n]
  BY DEF TypeOK
<1>4. /\ globals'[m] \in Seq(GlobalType)
      /\ Len(globals'[m]) = Len(globals[m])
      /\ globals'[m][g] = new
      /\ \A h \in 1..Len(globals[m]) : h # g => globals'[m][h] = globals[m][h]
  BY <1>1, <1>2, <1>3, ExceptSeq
<1>5. globals' \in [Modules -> Seq(GlobalType)] BY <1>1, <1>4 DEF TypeOK
<1>6. \A n \in Modules : Len(globals'[n]) = Len(globals[n]) BY <1>3, <1>4
<1>7. \A n \in Modules : \A h \in 1..Len(globals[n]) : n # m \/ h # g => globals'[n][h] = globals[n][h]
  BY <1>3, <1>4
<1>8. Keeps BY <1>2, <1>5, <1>6, <1>7 DEF Keeps
<1> QED BY <1>4, <1>6, <1>7, <1>8

-----------------------------------------------------------------------------
(* The steps *)

LEMMA InitInv == Init => Inv /\ CopiesInv
<1> SUFFICES ASSUME Init PROVE Inv /\ CopiesInv OBVIOUS
<1>1. bound \in BoundKinds BY ModulesAssumption DEF Init
<1>2. \A t \in Threads : builder[t] = Idle BY DEF Init
<1>3. Idle \in Others /\ Idle.pc = "idle" BY DEF Idle, Others
<1>4. <<>> \in Seq(GlobalType) BY EmptySeq
<1>5. TypeOK BY <1>1, <1>3, <1>4 DEF Init, TypeOK
<1>6. literals = {} BY DEF Init
<1> QED
  BY <1>2, <1>3, <1>5, <1>6
  DEF Inv, DefinersOK, DefinersApart, LookersOK, LiteralsExist, LiteralsHoldTheirData, CopiesInv, CopiesOK, OneCopyPerThread

(* A step of the thread t to its state b, in general.                        *)
LEMMA ThreadStep ==
    ASSUME Inv, Keeps, bound' = bound, NEW t \in Threads, NEW b \in Lookers \cup Definers \cup Others,
           builder' = [builder EXCEPT ![t] = b],
           literals' \subseteq Literal,
           \A l \in literals' \ literals : Exists(l.mod, l.global)' /\ Holds(l)',
           \A u \in Threads \ {t} : builder[u].pc \in {"size", "memory"} =>
               globals'[builder[u].mod][builder[u].at] = globals[builder[u].mod][builder[u].at],
           b.pc = "look" => b.at <= Len(globals'[b.mod]),
           b.pc \in {"size", "memory"} =>
               /\ DefinerOK(globals', b)
               /\ \A u \in Threads \ {t} :
                     builder[u].pc \in {"size", "memory"} => builder[u].mod # b.mod \/ builder[u].at # b.at
    PROVE  Inv'
<1>1. builder \in [Threads -> Lookers \cup Definers \cup Others] BY DEF Inv, TypeOK
<1>2. builder'[t] = b /\ \A u \in Threads \ {t} : builder'[u] = builder[u] BY <1>1
<1>3. TypeOK' BY <1>1 DEF Inv, TypeOK, Keeps
<1>4. \A u \in Threads : builder[u].pc \in {"size", "memory"} => builder[u].mod \in Modules
  BY BuilderStates DEF Inv, Definers
<1>5. DefinersOK'
  <2> SUFFICES ASSUME NEW u \in Threads, builder'[u].pc \in {"size", "memory"} PROVE DefinerOK(globals', builder'[u])
    BY DEF DefinersOK
  <2>1. CASE u = t BY <2>1, <1>2 DEF DefinerOK, Exists
  <2>2. CASE u # t
    <3>1. builder'[u] = builder[u] BY <2>2, <1>2
    <3>2. DefinerOK(globals, builder[u]) /\ builder[u].mod \in Modules BY <3>1, <1>4 DEF Inv, DefinersOK
    <3>3. globals'[builder[u].mod][builder[u].at] = globals[builder[u].mod][builder[u].at] BY <2>2, <3>1
    <3>4. builder[u].at \in 1..Len(globals'[builder[u].mod]) BY <3>2 DEF Keeps, DefinerOK
    <3> QED BY <3>1, <3>2, <3>3, <3>4 DEF DefinerOK
  <2> QED BY <2>1, <2>2
<1>6. DefinersApart'
  <2> SUFFICES ASSUME NEW u \in Threads, NEW v \in Threads,
                      builder'[u].pc \in {"size", "memory"}, builder'[v].pc \in {"size", "memory"},
                      builder'[u].mod = builder'[v].mod, builder'[u].at = builder'[v].at, u # v
               PROVE  FALSE
    BY DEF DefinersApart
  <2>1. CASE u = t BY <2>1, <1>2
  <2>2. CASE v = t BY <2>2, <1>2
  <2>3. CASE u # t /\ v # t BY <2>3, <1>2 DEF Inv, DefinersApart
  <2> QED BY <2>1, <2>2, <2>3
<1>7. LookersOK'
  <2> SUFFICES ASSUME NEW u \in Threads, builder'[u].pc = "look"
               PROVE  builder'[u].at <= Len(globals'[builder'[u].mod])
    BY DEF LookersOK
  <2>1. CASE u = t BY <2>1, <1>2
  <2>2. CASE u # t
    <3>1. builder'[u] = builder[u] BY <2>2, <1>2
    <3>2. builder[u] \in Lookers BY <3>1, BuilderStates DEF Inv, Is
    <3>3. builder[u].mod \in Modules /\ builder[u].at \in Nat BY <3>2 DEF Lookers
    <3>4. builder[u].at <= Len(globals[builder[u].mod]) BY <3>1 DEF Inv, LookersOK
    <3> QED BY <3>1, <3>3, <3>4 DEF Keeps
  <2> QED BY <2>1, <2>2
<1>8. ASSUME NEW l \in literals' PROVE Exists(l.mod, l.global)' /\ Holds(l)'
  <2>1. CASE l \notin literals BY <2>1
  <2>2. CASE l \in literals
    <3>1. l.mod \in Modules /\ l.data \in Data /\ l.global \in Nat BY <2>2 DEF Inv, TypeOK, Literal
    <3>2. Exists(l.mod, l.global) /\ Holds(l) BY <2>2 DEF Inv, LiteralsExist, LiteralsHoldTheirData, Holds
    <3>3. globals[l.mod][l.global].memory # NoMemory BY <3>1, <3>2, ModulesAssumption DEF Holds
    <3>4. globals'[l.mod][l.global] = globals[l.mod][l.global] BY <3>1, <3>2, <3>3 DEF Keeps, Exists
    <3>5. Exists(l.mod, l.global)' BY <3>1, <3>2 DEF Keeps, Exists
    <3> QED BY <3>2, <3>4, <3>5 DEF Holds
  <2> QED BY <2>1, <2>2
<1>9. LiteralsExist' /\ LiteralsHoldTheirData' BY <1>8 DEF LiteralsExist, LiteralsHoldTheirData, Holds
<1> QED BY <1>3, <1>5, <1>6, <1>7, <1>9 DEF Inv

(* Steps that change no global: the thread gives up, looks, or has found.    *)
LEMMA BuilderStep ==
    ASSUME Inv, UNCHANGED <<bound, globals, literals>>, NEW t \in Threads, NEW b \in Lookers \cup Others,
           builder' = [builder EXCEPT ![t] = b],
           b.pc = "look" => b.at <= Len(globals[b.mod])
    PROVE  Inv'
<1>1. Keeps BY Unchanged DEF Inv
<1>2. b.pc \notin {"size", "memory"} BY DEF Lookers, Others
<1>3. literals' \subseteq Literal BY DEF Inv, TypeOK
<1> QED BY <1>1, <1>2, <1>3, ThreadStep

LEMMA Idles == Idle \in Others
BY DEF Idle, Others

LEMMA AddStep ==
    ASSUME Inv, NEW t \in Threads, NEW m \in Modules, NEW mutable \in BOOLEAN,
           NEW d \in Data \cup {Zero}, NEW literal \in BOOLEAN,
           literal => ~mutable /\ d \in Data,
           globals' = [globals EXCEPT ![m] = Append(globals[m], Declared(mutable))],
           builder' = [builder EXCEPT ![t] = Defining("size", m, Len(globals[m]) + 1, d, literal)],
           UNCHANGED <<bound, literals>>
    PROVE  Inv'
<1> DEFINE at == Len(globals[m]) + 1
           b == Defining("size", m, at, d, literal)
<1>1. /\ Keeps
      /\ Len(globals'[m]) = at
      /\ globals'[m][at] = Declared(mutable)
      /\ \A n \in Modules : \A g \in 1..Len(globals[n]) : globals'[n][g] = globals[n][g]
  BY Added DEF Inv
<1>2. Len(globals[m]) \in Nat /\ at \in Nat \ {0} BY <1>1 DEF Keeps
<1>3. builder' = [builder EXCEPT ![t] = b] OBVIOUS
<1> HIDE DEF at
<1>4. /\ b \in Definers /\ b.pc = "size" /\ b.mod = m /\ b.at = at /\ b.literal = literal /\ b.data = d
  BY <1>2 DEF Defining, Definers
<1> HIDE DEF b
<1>5. DefinerOK(globals', b)
  BY <1>1, <1>2, <1>4 DEF DefinerOK, Exists, Declared
<1>6. ASSUME NEW u \in Threads, builder[u].pc \in {"size", "memory"}
      PROVE  /\ builder[u].mod # m \/ builder[u].at # at
             /\ globals'[builder[u].mod][builder[u].at] = globals[builder[u].mod][builder[u].at]
  <2>1. builder[u].mod \in Modules BY <1>6, BuilderStates DEF Inv, Definers
  <2>2. builder[u].at \in 1..Len(globals[builder[u].mod]) BY <1>6 DEF Inv, DefinersOK, DefinerOK, Exists
  <2> QED BY <2>1, <2>2, <1>1, <1>2 DEF at
<1>7. literals' \subseteq Literal /\ \A l \in literals' \ literals : FALSE BY DEF Inv, TypeOK
<1>8. b \in Lookers \cup Definers \cup Others /\ b.pc # "look" BY <1>4
<1>9. \A u \in Threads \ {t} : builder[u].pc \in {"size", "memory"} => builder[u].mod # b.mod \/ builder[u].at # b.at
  BY <1>4, <1>6
<1>10. \A u \in Threads \ {t} : builder[u].pc \in {"size", "memory"} =>
           globals'[builder[u].mod][builder[u].at] = globals[builder[u].mod][builder[u].at]
  BY <1>6
<1>11. bound' = bound OBVIOUS
<1> QED BY <1>1, <1>3, <1>5, <1>7, <1>8, <1>9, <1>10, <1>11, ThreadStep

LEMMA DefineSizeStep == ASSUME Inv, NEW t \in Threads, DefineSize(t), bound' = bound PROVE Inv'
<1> DEFINE old == builder[t]
           b == [old EXCEPT !.pc = "memory"]
           m == old.mod
           g == globals[m][old.at]
           new == [g EXCEPT !.size = DataSize(old.data)]
<1>1. old \in Definers /\ old.pc = "size" BY BuilderStates DEF DefineSize, Inv, Is
<1>2. DefinerOK(globals, old) BY <1>1 DEF Inv, DefinersOK
<1>3. m \in Modules /\ old.at \in 1..Len(globals[m]) BY <1>1, <1>2 DEF Definers, DefinerOK, Exists
<1>4. g \in GlobalType BY <1>3, LenProperties DEF Inv, TypeOK
<1>5. new \in GlobalType /\ new.size = DataSize(old.data) /\ new.memory = g.memory /\ new.mutable = g.mutable
  BY <1>1, <1>4, ModulesAssumption DEF GlobalType, Definers
<1>6. b \in Definers /\ b.pc = "memory" /\ b.mod = m /\ b.at = old.at /\ b.literal = old.literal /\ b.data = old.data
  BY <1>1 DEF Definers
<1>7. /\ globals' = [globals EXCEPT ![m] = [globals[m] EXCEPT ![old.at] = new]]
      /\ builder' = [builder EXCEPT ![t] = b]
      /\ literals' = literals
  BY DEF DefineSize
<1> HIDE DEF new, b
<1>8. /\ Keeps
      /\ globals'[m][old.at] = new
      /\ \A n \in Modules : Len(globals'[n]) = Len(globals[n])
      /\ \A n \in Modules : \A h \in 1..Len(globals[n]) : n # m \/ h # old.at => globals'[n][h] = globals[n][h]
  BY <1>2, <1>3, <1>5, <1>7, Defined DEF Inv, DefinerOK
<1>9. DefinerOK(globals', b) BY <1>2, <1>3, <1>5, <1>6, <1>8 DEF DefinerOK, Exists
<1>10. ASSUME NEW u \in Threads \ {t}, builder[u].pc \in {"size", "memory"}
       PROVE  /\ builder[u].mod # m \/ builder[u].at # old.at
              /\ globals'[builder[u].mod][builder[u].at] = globals[builder[u].mod][builder[u].at]
  <2>1. builder[u].mod # m \/ builder[u].at # old.at BY <1>1, <1>10 DEF Inv, DefinersApart
  <2>2. builder[u].mod \in Modules BY <1>10, BuilderStates DEF Inv, Definers
  <2>3. builder[u].at \in 1..Len(globals[builder[u].mod]) BY <1>10 DEF Inv, DefinersOK, DefinerOK, Exists
  <2> QED BY <2>1, <2>2, <2>3, <1>8
<1>11. literals' \subseteq Literal /\ \A l \in literals' \ literals : FALSE BY <1>7 DEF Inv, TypeOK
<1>12. b \in Lookers \cup Definers \cup Others /\ b.pc # "look" BY <1>6
<1>13. \A u \in Threads \ {t} : builder[u].pc \in {"size", "memory"} => builder[u].mod # b.mod \/ builder[u].at # b.at
  BY <1>6, <1>10
<1> QED BY <1>7, <1>8, <1>9, <1>10, <1>11, <1>12, <1>13, ThreadStep

LEMMA DefineMemoryStep == ASSUME Inv, NEW t \in Threads, DefineMemory(t), bound' = bound PROVE Inv'
<1> DEFINE b == builder[t]
           m == b.mod
           g == globals[m][b.at]
           new == [g EXCEPT !.memory = b.data]
<1>1. b \in Definers /\ b.pc = "memory" BY BuilderStates DEF DefineMemory, Inv, Is
<1>2. DefinerOK(globals, b) BY <1>1 DEF Inv, DefinersOK
<1>3. m \in Modules /\ b.at \in 1..Len(globals[m]) BY <1>1, <1>2 DEF Definers, DefinerOK
<1>4. g \in GlobalType BY <1>3, LenProperties DEF Inv, TypeOK
<1>5. builder' = [builder EXCEPT ![t] = Idle] /\ Idle \in Others BY Idles DEF DefineMemory
<1>6. Idle.pc = "idle" BY DEF Idle
<1>7. literals' = IF b.literal THEN literals \cup {[thread |-> t, mod |-> m, global |-> b.at, data |-> b.data, added |-> TRUE]}
                  ELSE literals
  BY DEF DefineMemory, Given
<1>8. ASSUME NEW u \in Threads \ {t}, builder[u].pc \in {"size", "memory"}
      PROVE  /\ builder[u].mod # m \/ builder[u].at # b.at
             /\ builder[u].mod \in Modules
             /\ builder[u].at \in 1..Len(globals[builder[u].mod])
  <2>1. builder[u].mod # m \/ builder[u].at # b.at BY <1>1, <1>8 DEF Inv, DefinersApart
  <2>2. builder[u].mod \in Modules BY <1>8, BuilderStates DEF Inv, Definers
  <2> QED BY <2>1, <2>2, <1>8 DEF Inv, DefinersOK, DefinerOK
<1>9. CASE b.data = Zero
  <2>1. globals' = globals /\ ~b.literal BY <1>2, <1>9, ModulesAssumption DEF DefineMemory, DefinerOK
  <2>2. literals' = literals BY <2>1, <1>7
  <2>3. UNCHANGED <<bound, globals, literals>> BY <2>1, <2>2
  <2> QED BY <2>3, <1>5, <1>6, BuilderStep
<1>10. CASE b.data # Zero
  <2>1. b.data \in Data BY <1>1, <1>10 DEF Definers
  <2>2. new \in GlobalType /\ new.size = g.size /\ new.memory = b.data /\ new.mutable = g.mutable
    BY <2>1, <1>4 DEF GlobalType
  <2>3. globals' = [globals EXCEPT ![m] = [globals[m] EXCEPT ![b.at] = new]] BY <1>10 DEF DefineMemory
  <2> HIDE DEF new
  <2>4. /\ Keeps
        /\ globals'[m][b.at] = new
        /\ \A n \in Modules : Len(globals'[n]) = Len(globals[n])
        /\ \A n \in Modules : \A h \in 1..Len(globals[n]) : n # m \/ h # b.at => globals'[n][h] = globals[n][h]
    BY <1>2, <1>3, <2>2, <2>3, Defined DEF Inv, DefinerOK
  <2>5. \A u \in Threads \ {t} : builder[u].pc \in {"size", "memory"} =>
            globals'[builder[u].mod][builder[u].at] = globals[builder[u].mod][builder[u].at]
    BY <2>4, <1>8
  <2>6. ASSUME NEW l \in literals' \ literals PROVE l \in Literal /\ Exists(l.mod, l.global)' /\ Holds(l)'
    <3>1. b.literal /\ l = [thread |-> t, mod |-> m, global |-> b.at, data |-> b.data, added |-> TRUE]
      BY <2>6, <1>7
    <3>2. l \in Literal BY <3>1, <2>1, <1>1 DEF Literal, Definers
    <3>3. b.at \in 1..Len(globals'[m]) BY <2>4, <1>3
    <3>4. l.mod = m /\ l.global = b.at /\ l.data = b.data BY <3>1
    <3>5. ~new.mutable /\ new.size = DataSize(b.data) /\ new.memory = b.data
      BY <3>1, <2>2, <1>1, <1>2 DEF DefinerOK
    <3> QED BY <3>2, <3>3, <3>4, <3>5, <2>4 DEF Exists, Holds
  <2>7. literals' \subseteq Literal BY <2>6 DEF Inv, TypeOK
  <2>8. Idle \in Lookers \cup Definers \cup Others /\ Idle.pc # "look" /\ Idle.pc \notin {"size", "memory"}
    BY <1>5, <1>6
  <2> QED BY <2>4, <2>5, <2>6, <2>7, <2>8, <1>5, ThreadStep
<1> QED BY <1>9, <1>10

LEMMA LookForLiteralStep ==
    ASSUME Inv, NEW t \in Threads, NEW m \in Modules, NEW d \in Data, LookForLiteral(t, m, d), bound' = bound
    PROVE  Inv'
<1> DEFINE b == Looking(m, Len(globals[m]), d)
<1>1. Len(globals[m]) \in Nat BY LenProperties DEF Inv, TypeOK
<1>2. b \in Lookers /\ b.at = Len(globals[m]) /\ b.mod = m BY <1>1 DEF Looking, Lookers
<1>3. builder' = [builder EXCEPT ![t] = b] /\ UNCHANGED <<bound, globals, literals>> BY DEF LookForLiteral
<1> HIDE DEF b
<1>4. b.at <= Len(globals[b.mod]) BY <1>1, <1>2
<1> QED BY <1>2, <1>3, <1>4, BuilderStep

LEMMA LookAtGlobalStep == ASSUME Inv, NEW t \in Threads, LookAtGlobal(t), bound' = bound PROVE Inv'
<1> DEFINE b == builder[t]
           m == b.mod
           g == globals[m][b.at]
<1>1. b \in Lookers /\ b.pc = "look" /\ b.at > 0 BY BuilderStates DEF LookAtGlobal, Inv, Is
<1>2. m \in Modules /\ b.at \in 1..Len(globals[m])
  BY <1>1, LenProperties DEF Inv, TypeOK, LookersOK, Lookers
<1>3. CASE ComparesNull(g, b.data)
  <2>1. builder' = [builder EXCEPT ![t] = [pc |-> "crashed"]] /\ UNCHANGED <<bound, globals, literals>>
    BY <1>3 DEF LookAtGlobal
  <2>2. [pc |-> "crashed"] \in Others /\ [pc |-> "crashed"].pc # "look" BY DEF Others
  <2> QED BY <2>1, <2>2, BuilderStep
<1>4. CASE ~ComparesNull(g, b.data) /\ Matches(g, b.data)
  <2>1. /\ builder' = [builder EXCEPT ![t] = Idle] /\ UNCHANGED <<bound, globals>>
        /\ literals' = literals \cup {[thread |-> t, mod |-> m, global |-> b.at, data |-> b.data, added |-> FALSE]}
    BY <1>4 DEF LookAtGlobal, Given
  <2>2. ASSUME NEW l \in literals' \ literals PROVE l \in Literal /\ Exists(l.mod, l.global)' /\ Holds(l)'
    <3>1. l = [thread |-> t, mod |-> m, global |-> b.at, data |-> b.data, added |-> FALSE] BY <2>1, <2>2
    <3>2. l \in Literal BY <3>1, <1>1 DEF Literal, Lookers
    <3>3. l.mod = m /\ l.global = b.at /\ l.data = b.data BY <3>1
    <3> QED BY <3>2, <3>3, <2>1, <1>2, <1>4 DEF Exists, Holds, Matches
  <2>3. literals' \subseteq Literal BY <2>2 DEF Inv, TypeOK
  <2>4. Keeps BY <2>1, Unchanged DEF Inv
  <2>5. Idle \in Lookers \cup Definers \cup Others /\ Idle.pc # "look" /\ Idle.pc \notin {"size", "memory"}
    BY Idles DEF Idle
  <2> QED BY <2>1, <2>2, <2>3, <2>4, <2>5, ThreadStep
<1>5. CASE ~ComparesNull(g, b.data) /\ ~Matches(g, b.data)
  <2> DEFINE next == [b EXCEPT !.at = b.at - 1]
  <2>1. builder' = [builder EXCEPT ![t] = next] /\ UNCHANGED <<bound, globals, literals>>
    BY <1>5 DEF LookAtGlobal
  <2>2. next \in Lookers /\ next.at = b.at - 1 /\ next.mod = m BY <1>1 DEF Lookers
  <2> HIDE DEF next
  <2>3. next.at <= Len(globals[next.mod]) BY <2>2, <1>2
  <2> QED BY <2>1, <2>2, <2>3, BuilderStep
<1> QED BY <1>3, <1>4, <1>5

(* Steps that no thread takes, or that are about functions.                  *)
LEMMA OtherSteps == ASSUME Inv, UNCHANGED <<bound, globals, builder, literals>> PROVE Inv'
BY DEF Inv, TypeOK, DefinersOK, DefinersApart, LookersOK, LiteralsExist, LiteralsHoldTheirData, Exists

LEMMA FunctionSteps ==
    ASSUME Inv, bound' = bound, NEW t \in Threads, NEW m \in Modules, NEW name \in Names,
           AddFunction(t, m, name) \/ FindExtern(t, m, name)
    PROVE  Inv'
<1> DEFINE b == [pc |-> "declare", mod |-> m, name |-> name]
<1>1. b \in Others /\ b.pc # "look" BY DEF Others
<1>2. Idle \in Others /\ Idle.pc # "look" BY Idles DEF Idle
<1>3. UNCHANGED <<bound, globals, literals>> BY DEF AddFunction, FindExtern
<1>4. builder' = [builder EXCEPT ![t] = b] \/ builder' = [builder EXCEPT ![t] = Idle]
  BY DEF AddFunction, FindExtern
<1> HIDE DEF b
<1>5. CASE builder' = [builder EXCEPT ![t] = b] BY <1>1, <1>3, <1>5, BuilderStep
<1>6. CASE builder' = [builder EXCEPT ![t] = Idle] BY <1>2, <1>3, <1>6, BuilderStep
<1> QED BY <1>4, <1>5, <1>6

LEMMA ThreadsAndModules ==
    ASSUME Inv PROVE bound.threads \subseteq Threads /\ bound.modules \subseteq Modules /\ bound.data \subseteq Data
BY DEF Inv, TypeOK, BoundKinds

LEMMA NextInv == ASSUME Inv, [Next]_vars PROVE Inv'
<1>1. CASE UNCHANGED vars BY <1>1, OtherSteps DEF vars
<1>2. CASE Next
  <2>1. bound' = bound BY <1>2 DEF Next
  <2>2. ASSUME NEW t \in bound.threads, NEW m \in bound.modules, NEW mutable \in BOOLEAN,
               NEW d \in bound.data \cup {Zero}, AddGlobal(t, m, mutable, d)
        PROVE  Inv'
    <3>1. t \in Threads /\ m \in Modules /\ d \in Data \cup {Zero} BY ThreadsAndModules
    <3>2. /\ globals' = [globals EXCEPT ![m] = Append(globals[m], Declared(mutable))]
          /\ builder' = [builder EXCEPT ![t] = Defining("size", m, Len(globals[m]) + 1, d, FALSE)]
          /\ UNCHANGED <<bound, literals>>
      BY <2>1, <2>2 DEF AddGlobal
    <3> QED BY <3>1, <3>2, AddStep
  <2>3. ASSUME NEW t \in bound.threads, NEW m \in bound.modules, NEW d \in bound.data, LookForLiteral(t, m, d)
        PROVE  Inv'
    BY <2>1, <2>3, ThreadsAndModules, LookForLiteralStep
  <2>4. ASSUME NEW t \in bound.threads, NEW m \in bound.modules, NEW name \in Names,
               AddFunction(t, m, name) \/ FindExtern(t, m, name)
        PROVE  Inv'
    BY <2>1, <2>4, ThreadsAndModules, FunctionSteps
  <2>5. ASSUME NEW t \in bound.threads, LeaveUndefined(t) PROVE Inv'
    <3>1. Idle \in Others /\ Idle.pc # "look" /\ t \in Threads BY Idles, ThreadsAndModules DEF Idle
    <3>2. builder' = [builder EXCEPT ![t] = Idle] /\ UNCHANGED <<bound, globals, literals>>
      BY <2>1, <2>5 DEF LeaveUndefined
    <3> QED BY <3>1, <3>2, BuilderStep
  <2>6. ASSUME NEW t \in bound.threads, DefineSize(t) PROVE Inv'
    BY <2>1, <2>6, ThreadsAndModules, DefineSizeStep
  <2>7. ASSUME NEW t \in bound.threads, DefineMemory(t) PROVE Inv'
    BY <2>1, <2>7, ThreadsAndModules, DefineMemoryStep
  <2>8. ASSUME NEW t \in bound.threads, LookAtGlobal(t) PROVE Inv'
    BY <2>1, <2>8, ThreadsAndModules, LookAtGlobalStep
  <2>9. ASSUME NEW t \in bound.threads, AddLiteral(t) PROVE Inv'
    <3>1. t \in Threads BY ThreadsAndModules
    <3>2. builder[t] \in Lookers BY <2>9, <3>1, BuilderStates DEF AddLiteral, Inv
    <3>3. builder[t].mod \in Modules /\ builder[t].data \in Data BY <3>2 DEF Lookers
    <3>4. /\ globals' = [globals EXCEPT ![builder[t].mod] = Append(globals[builder[t].mod], Declared(FALSE))]
          /\ builder' = [builder EXCEPT ![t] =
                            Defining("size", builder[t].mod, Len(globals[builder[t].mod]) + 1, builder[t].data, TRUE)]
          /\ UNCHANGED <<bound, literals>>
      BY <2>1, <2>9 DEF AddLiteral
    <3> QED BY <3>1, <3>3, <3>4, AddStep
  <2>10. CASE UNCHANGED <<globals, builder, literals>> BY <2>1, <2>10, OtherSteps
  <2> QED
    BY <1>2, <2>2, <2>3, <2>4, <2>5, <2>6, <2>7, <2>8, <2>9, <2>10
    DEF Next, DefineFunction, LinkModules, DefineNativeFunction, Start
<1> QED BY <1>1, <1>2

LEMMA Invariant == Spec => []Inv
BY InitInv, NextInv, PTL DEF Spec

(* A literal is a constant global with the data that was asked for, for any  *)
(* number of threads that build the module: a global that a thread still     *)
(* defines has no memory, so it matches nothing, and nobody defines a global *)
(* that has some.                                                            *)
THEOREM LiteralsAreRight == Spec => []LiteralsHoldTheirData
BY Invariant, PTL DEF Inv

-----------------------------------------------------------------------------
(* Copies of literals *)

(* A step of the thread t to its state b that gives nobody a literal that    *)
(* was added for it.                                                         *)
LEMMA CopiesStep ==
    ASSUME Inv, CopiesInv, NEW t \in Threads, NEW b, builder' = [builder EXCEPT ![t] = b],
           literals \subseteq literals', \A l \in literals' \ literals : ~l.added,
           CopiesOK(t, b)
    PROVE  CopiesInv'
<1>1. builder \in [Threads -> Lookers \cup Definers \cup Others] BY DEF Inv, TypeOK
<1>2. builder'[t] = b /\ \A u \in Threads \ {t} : builder'[u] = builder[u] BY <1>1
<1>3. \A l \in literals' : l.added => l \in literals OBVIOUS
<1>4. OneCopyPerThread' BY <1>3 DEF CopiesInv, OneCopyPerThread
<1>5. ASSUME NEW u \in Threads PROVE CopiesOK(u, builder[u])'
  <2>1. CASE u = t BY <2>1, <1>2, <1>3 DEF CopiesOK, Copies
  <2>2. CASE u # t
    <3>1. builder'[u] = builder[u] /\ CopiesOK(u, builder[u]) BY <2>2, <1>2 DEF CopiesInv
    <3> QED BY <3>1, <1>3 DEF CopiesOK, Copies
  <2> QED BY <2>1, <2>2
<1> QED BY <1>4, <1>5 DEF CopiesInv

LEMMA CopiesOfOthers == ASSUME NEW t, NEW b \in Others PROVE CopiesOK(t, b)
BY DEF CopiesOK, Others

LEMMA IdleCopies ==
    ASSUME Inv, CopiesInv, NEW t \in Threads, NEW b \in Others, builder' = [builder EXCEPT ![t] = b],
           literals' = literals
    PROVE  CopiesInv'
BY CopiesOfOthers, CopiesStep

LEMMA LookForLiteralCopies ==
    ASSUME Inv, CopiesInv, NEW t \in Threads, NEW m \in Modules, NEW d \in Data, LookForLiteral(t, m, d)
    PROVE  CopiesInv'
<1> DEFINE b == Looking(m, Len(globals[m]), d)
<1>1. b.pc = "look" /\ b.at = Len(globals[m]) /\ b.mod = m BY DEF Looking
<1>2. builder' = [builder EXCEPT ![t] = b] /\ literals' = literals BY DEF LookForLiteral
<1> HIDE DEF b
<1>3. CopiesOK(t, b) BY <1>1, LenProperties DEF CopiesOK, Copies, Inv, LiteralsExist, Exists, TypeOK
<1> QED BY <1>2, <1>3, CopiesStep

LEMMA LookAtGlobalCopies == ASSUME Inv, CopiesInv, NEW t \in Threads, LookAtGlobal(t) PROVE CopiesInv'
<1> DEFINE b == builder[t]
           m == b.mod
           g == globals[m][b.at]
<1>1. b \in Lookers /\ b.pc = "look" BY BuilderStates DEF LookAtGlobal, Inv, Is
<1>2. CASE ComparesNull(g, b.data)
  <2>1. builder' = [builder EXCEPT ![t] = [pc |-> "crashed"]] /\ literals' = literals BY <1>2 DEF LookAtGlobal
  <2>2. [pc |-> "crashed"] \in Others BY DEF Others
  <2> QED BY <2>1, <2>2, IdleCopies
<1>3. CASE ~ComparesNull(g, b.data) /\ Matches(g, b.data)
  <2>1. /\ builder' = [builder EXCEPT ![t] = Idle]
        /\ literals' = literals \cup {[thread |-> t, mod |-> m, global |-> b.at, data |-> b.data, added |-> FALSE]}
    BY <1>3 DEF LookAtGlobal, Given
  <2>2. literals \subseteq literals' /\ \A l \in literals' \ literals : ~l.added BY <2>1
  <2> QED BY <2>1, <2>2, Idles, CopiesOfOthers, CopiesStep
<1>4. CASE ~ComparesNull(g, b.data) /\ ~Matches(g, b.data)
  <2> DEFINE next == [b EXCEPT !.at = b.at - 1]
  <2>1. builder' = [builder EXCEPT ![t] = next] /\ literals' = literals BY <1>4 DEF LookAtGlobal
  <2>2. next.pc = "look" /\ next.at = b.at - 1 /\ next.mod = m /\ next.data = b.data BY <1>1 DEF Lookers
  <2> HIDE DEF next
  <2>3. ASSUME NEW l \in Copies(t, next) PROVE l.global <= next.at
    <3>1. l \in literals /\ l \in Copies(t, b) /\ l.mod = m /\ l.data = b.data BY <2>2, <2>3 DEF Copies
    <3>2. l.global <= b.at BY <3>1, <1>1 DEF CopiesInv, CopiesOK
    <3>3. l.global # b.at BY <3>1, <1>4 DEF Inv, LiteralsHoldTheirData, Matches
    <3>4. l.global \in Nat /\ b.at \in Nat BY <3>1, <1>1 DEF Inv, TypeOK, Literal, Lookers
    <3> QED BY <2>2, <3>2, <3>3, <3>4
  <2>4. CopiesOK(t, next) BY <2>2, <2>3 DEF CopiesOK
  <2> QED BY <2>1, <2>4, CopiesStep
<1> QED BY <1>2, <1>3, <1>4

LEMMA AddLiteralCopies == ASSUME Inv, CopiesInv, NEW t \in Threads, AddLiteral(t) PROVE CopiesInv'
<1> DEFINE old == builder[t]
           b == Defining("size", old.mod, Len(globals[old.mod]) + 1, old.data, TRUE)
<1>1. old.pc = "look" /\ old.at = 0 BY DEF AddLiteral, Is
<1>2. builder' = [builder EXCEPT ![t] = b] /\ literals' = literals BY DEF AddLiteral
<1>3. b.pc = "size" /\ b.mod = old.mod /\ b.data = old.data BY DEF Defining
<1> HIDE DEF b
<1>4. ASSUME NEW l \in Copies(t, b) PROVE FALSE
  <2>1. l \in literals /\ l \in Copies(t, old) BY <1>3, <1>4 DEF Copies
  <2>2. l.global <= 0 BY <2>1, <1>1 DEF CopiesInv, CopiesOK
  <2>3. l.global \in 1..Len(globals[l.mod]) BY <2>1 DEF Inv, LiteralsExist, Exists
  <2> QED BY <2>2, <2>3
<1>5. CopiesOK(t, b) BY <1>3, <1>4 DEF CopiesOK
<1> QED BY <1>2, <1>5, CopiesStep

LEMMA DefineSizeCopies == ASSUME Inv, CopiesInv, NEW t \in Threads, DefineSize(t) PROVE CopiesInv'
<1> DEFINE old == builder[t]
           b == [old EXCEPT !.pc = "memory"]
<1>1. old \in Definers /\ old.pc = "size" BY BuilderStates DEF DefineSize, Inv, Is
<1>2. b.pc = "memory" /\ b.mod = old.mod /\ b.literal = old.literal /\ b.data = old.data
  BY <1>1 DEF Definers
<1>3. builder' = [builder EXCEPT ![t] = b] /\ literals' = literals BY DEF DefineSize
<1> HIDE DEF b
<1>4. CopiesOK(t, b) BY <1>1, <1>2 DEF CopiesInv, CopiesOK, Copies
<1> QED BY <1>3, <1>4, CopiesStep

LEMMA DefineMemoryCopies == ASSUME Inv, CopiesInv, NEW t \in Threads, DefineMemory(t) PROVE CopiesInv'
<1> DEFINE b == builder[t]
           new == [thread |-> t, mod |-> b.mod, global |-> b.at, data |-> b.data, added |-> TRUE]
<1>1. b.pc = "memory" /\ builder' = [builder EXCEPT ![t] = Idle] BY DEF DefineMemory, Is
<1>2. CASE ~b.literal
  <2>1. literals' = literals BY <1>2 DEF DefineMemory
  <2> QED BY <2>1, <1>1, Idles, IdleCopies
<1>3. CASE b.literal
  <2>1. literals' = literals \cup {new} BY <1>3 DEF DefineMemory, Given
  <2>2. new.thread = t /\ new.mod = b.mod /\ new.data = b.data OBVIOUS
  <2> HIDE DEF new
  <2>3. \A l \in literals : ~(l.added /\ l.thread = t /\ l.mod = b.mod /\ l.data = b.data)
    BY <1>1, <1>3 DEF CopiesInv, CopiesOK, Copies
  <2>4. OneCopyPerThread' BY <2>1, <2>2, <2>3 DEF CopiesInv, OneCopyPerThread
  <2>5. builder \in [Threads -> Lookers \cup Definers \cup Others] BY DEF Inv, TypeOK
  <2>6. ASSUME NEW u \in Threads PROVE CopiesOK(u, builder[u])'
    <3>1. CASE u = t
      <4>1. builder'[u] = Idle BY <3>1, <1>1, <2>5
      <4> QED BY <4>1 DEF CopiesOK, Idle
    <3>2. CASE u # t
      <4>1. builder'[u] = builder[u] /\ CopiesOK(u, builder[u]) BY <3>2, <1>1, <2>5 DEF CopiesInv
      <4>2. Copies(u, builder[u])' = Copies(u, builder[u]) BY <4>1, <3>2, <2>1, <2>2 DEF Copies
      <4> QED BY <4>1, <4>2 DEF CopiesOK
    <3> QED BY <3>1, <3>2
  <2> QED BY <2>4, <2>6 DEF CopiesInv
<1> QED BY <1>2, <1>3

LEMMA NextCopies == ASSUME Inv, CopiesInv, [Next]_vars PROVE CopiesInv'
<1>1. CASE UNCHANGED <<builder, literals>> BY <1>1 DEF CopiesInv, CopiesOK, Copies, OneCopyPerThread
<1>2. CASE Next
  <2>1. ASSUME NEW t \in bound.threads, NEW m \in bound.modules, NEW mutable \in BOOLEAN,
               NEW d \in bound.data \cup {Zero}, AddGlobal(t, m, mutable, d)
        PROVE  CopiesInv'
    <3> DEFINE b == Defining("size", m, Len(globals[m]) + 1, d, FALSE)
    <3>1. t \in Threads /\ builder' = [builder EXCEPT ![t] = b] /\ literals' = literals
      BY <2>1, ThreadsAndModules DEF AddGlobal
    <3>2. CopiesOK(t, b) BY DEF CopiesOK, Defining
    <3> QED BY <3>1, <3>2, CopiesStep
  <2>2. ASSUME NEW t \in bound.threads, NEW m \in bound.modules, NEW d \in bound.data, LookForLiteral(t, m, d)
        PROVE  CopiesInv'
    BY <2>2, ThreadsAndModules, LookForLiteralCopies
  <2>3. ASSUME NEW t \in bound.threads, NEW m \in bound.modules, NEW name \in Names,
               AddFunction(t, m, name) \/ FindExtern(t, m, name)
        PROVE  CopiesInv'
    <3> DEFINE b == [pc |-> "declare", mod |-> m, name |-> name]
    <3>1. t \in Threads /\ m \in Modules BY ThreadsAndModules
    <3>2. b \in Others /\ Idle \in Others BY <3>1, Idles DEF Others
    <3>3. literals' = literals /\ (builder' = [builder EXCEPT ![t] = b] \/ builder' = [builder EXCEPT ![t] = Idle])
      BY <2>3 DEF AddFunction, FindExtern
    <3> HIDE DEF b
    <3> QED BY <3>1, <3>2, <3>3, IdleCopies
  <2>4. ASSUME NEW t \in bound.threads, LeaveUndefined(t) PROVE CopiesInv'
    BY <2>4, ThreadsAndModules, Idles, IdleCopies DEF LeaveUndefined
  <2>5. ASSUME NEW t \in bound.threads, DefineSize(t) PROVE CopiesInv'
    BY <2>5, ThreadsAndModules, DefineSizeCopies
  <2>6. ASSUME NEW t \in bound.threads, DefineMemory(t) PROVE CopiesInv'
    BY <2>6, ThreadsAndModules, DefineMemoryCopies
  <2>7. ASSUME NEW t \in bound.threads, LookAtGlobal(t) PROVE CopiesInv'
    BY <2>7, ThreadsAndModules, LookAtGlobalCopies
  <2>8. ASSUME NEW t \in bound.threads, AddLiteral(t) PROVE CopiesInv'
    BY <2>8, ThreadsAndModules, AddLiteralCopies
  <2> QED
    BY <1>1, <1>2, <2>1, <2>2, <2>3, <2>4, <2>5, <2>6, <2>7, <2>8
    DEF Next, DefineFunction, LinkModules, DefineNativeFunction, Start
<1> QED BY <1>1, <1>2 DEF vars

(* No thread adds a literal twice to a module: what it looks through         *)
(* includes all that it has added, whatever others add meanwhile.  So there  *)
(* are never more copies of a literal than threads.                          *)
THEOREM EachThreadAddsOnce == Spec => []OneCopyPerThread
<1>1. Init => CopiesInv BY InitInv
<1>2. Inv /\ CopiesInv /\ [Next]_vars => CopiesInv' BY NextCopies
<1>3. CopiesInv => OneCopyPerThread BY DEF CopiesInv
<1> QED BY <1>1, <1>2, <1>3, Invariant, PTL DEF Spec

-----------------------------------------------------------------------------
(* Lists *)

(* What holds of 0, and of a number's successor with it, holds of all.       *)
LEMMA Induction ==
    ASSUME NEW S, 0 \in S, \A n \in Nat : n \in S => n + 1 \in S
    PROVE  Nat \subseteq S
<1> DEFINE T == Nat \ S
           R == OpToRel(<, Nat)
<1>1. SUFFICES ASSUME T # {} PROVE FALSE
  OBVIOUS
<1>2. IsWellFoundedOn(R, Nat) BY NatLessThanWellFounded
<1>3. \A m, k \in Nat : k < m => <<k, m>> \in R
  <2> TAKE m, k \in Nat
  <2>1. <<k, m>> \in Nat \X Nat OBVIOUS
  <2> QED BY <2>1 DEF OpToRel
<1>4. T \subseteq Nat OBVIOUS
<1> HIDE DEF R, T
<1>5. PICK m \in T : \A k \in T : <<k, m>> \notin R BY <1>1, <1>2, <1>4, WFMin
<1>6. m \in Nat /\ m \notin S /\ \A k \in Nat : k < m => k \in S BY <1>3, <1>5 DEF T
<1>7. m # 0 /\ m - 1 \in Nat /\ m - 1 < m /\ m - 1 + 1 = m BY <1>6
<1> QED BY <1>6, <1>7

(* The first of the indices I of a list.                                     *)
LEMMA FirstIndex ==
    ASSUME NEW I, I \subseteq Nat, I # {}
    PROVE  Min(I) \in I /\ \A k \in I : Min(I) <= k
<1> DEFINE S == {n \in Nat : (\E k \in I : k <= n) => \E m \in I : \A k \in I : m <= k}
<1>1. 0 \in S
  <2> SUFFICES ASSUME NEW m \in I, m <= 0 PROVE \A k \in I : m <= k
    OBVIOUS
  <2> QED OBVIOUS
<1>2. ASSUME NEW n \in Nat, n \in S PROVE n + 1 \in S
  <2>1. CASE \E k \in I : k <= n BY <1>2, <2>1
  <2>2. CASE ~\E k \in I : k <= n
    <3>1. \A k \in I : n + 1 <= k BY <2>2
    <3>2. ASSUME NEW k \in I, k <= n + 1 PROVE \E m \in I : \A j \in I : m <= j
      <4>1. k = n + 1 BY <3>1, <3>2
      <4> QED BY <3>1, <4>1
    <3> QED BY <3>2
  <2> QED BY <2>1, <2>2
<1>3. \A n \in Nat : n \in S => n + 1 \in S BY <1>2
<1> HIDE DEF S
<1>4. Nat \subseteq S BY <1>1, <1>3, Induction
<1>5. PICK n \in I : TRUE OBVIOUS
<1>6. n \in S /\ n \in Nat BY <1>4, <1>5
<1>7. \E m \in I : \A k \in I : m <= k BY <1>5, <1>6 DEF S
<1> QED BY <1>7 DEF Min

(* What FlattenSeq computes, list by list.                                   *)
LEMMA FlattenSteps ==
    ASSUME NEW n \in Nat \ {0}, NEW ss, ss = [i \in 1..n |-> ss[i]]
    PROVE  \E f : /\ f = [i \in 1..n |-> IF i = 1 THEN ss[i] ELSE f[i - 1] \o ss[i]]
                  /\ FlattenSeq(ss) = f[n]
<1> DEFINE F(k) == \E f : f = [i \in 1..k |-> IF i = 1 THEN ss[i] ELSE f[i - 1] \o ss[i]]
           S == {k \in Nat : F(k)}
<1>1. 0 \in S
  <2> DEFINE e == [i \in 1..0 |-> 0]
  <2>1. e = [i \in 1..0 |-> IF i = 1 THEN ss[i] ELSE e[i - 1] \o ss[i]] OBVIOUS
  <2> HIDE DEF e
  <2>2. F(0) BY <2>1
  <2> QED BY <2>2
<1>2. ASSUME NEW k \in Nat, k \in S PROVE k + 1 \in S
  <2>1. PICK f : f = [i \in 1..k |-> IF i = 1 THEN ss[i] ELSE f[i - 1] \o ss[i]] BY <1>2
  <2> DEFINE g == [i \in 1..k + 1 |-> IF i = k + 1
                                      THEN IF i = 1 THEN ss[i] ELSE f[k] \o ss[i]
                                      ELSE f[i]]
  <2>2. ASSUME NEW i \in 1..k + 1 PROVE g[i] = IF i = 1 THEN ss[i] ELSE g[i - 1] \o ss[i]
    <3>1. CASE i = 1 /\ i = k + 1 BY <3>1
    <3>2. CASE i # 1 /\ i = k + 1
      <4>1. k \in 1..k + 1 /\ k # k + 1 /\ i - 1 = k BY <3>2
      <4>2. g[k] = f[k] BY <4>1
      <4>3. g[i] = f[k] \o ss[i] BY <3>2
      <4> HIDE DEF g
      <4> QED BY <3>2, <4>1, <4>2, <4>3
    <3>3. CASE i = 1 /\ i # k + 1
      <4>1. i \in 1..k BY <3>3
      <4>2. f[i] = ss[i] BY <2>1, <3>3, <4>1
      <4> QED BY <3>3, <4>2
    <3>4. CASE i # 1 /\ i # k + 1
      <4>1. i \in 1..k /\ i - 1 \in 1..k + 1 /\ i - 1 # k + 1 BY <3>4
      <4>2. f[i] = f[i - 1] \o ss[i] BY <2>1, <3>4, <4>1
      <4>3. g[i] = f[i] /\ g[i - 1] = f[i - 1] BY <3>4, <4>1
      <4> HIDE DEF g
      <4> QED BY <3>4, <4>2, <4>3
    <3> QED BY <3>1, <3>2, <3>3, <3>4
  <2>3. g = [i \in 1..k + 1 |-> g[i]] OBVIOUS
  <2> HIDE DEF g
  <2>4. g = [i \in 1..k + 1 |-> IF i = 1 THEN ss[i] ELSE g[i - 1] \o ss[i]] BY <2>2, <2>3
  <2>5. F(k + 1) BY <2>4
  <2> HIDE DEF F
  <2>6. k + 1 \in Nat OBVIOUS
  <2> QED BY <2>5, <2>6
<1>3. \A k \in Nat : k \in S => k + 1 \in S BY <1>2
<1> HIDE DEF S
<1>4. n \in S BY <1>1, <1>3, Induction
<1>5. F(n) BY <1>4 DEF S
<1> HIDE DEF F
<1> DEFINE f == CHOOSE f : f = [i \in 1..n |-> IF i = 1 THEN ss[i] ELSE f[i - 1] \o ss[i]]
<1>6. f = [i \in 1..n |-> IF i = 1 THEN ss[i] ELSE f[i - 1] \o ss[i]] BY <1>5 DEF F
<1>7. Len(ss) = n /\ Len(ss) # 0
  <2>1. ss \in [1..n -> {ss[i] : i \in 1..n}] BY Zenon
  <2> HIDE DEF f
  <2> QED BY <2>1
<1>8. FlattenSeq(ss) = f[n] BY <1>7 DEF FlattenSeq
<1> HIDE DEF f
<1> QED BY <1>6, <1>8

LEMMA Contents ==
    ASSUME NEW S, NEW s \in Seq(S)
    PROVE  ToSet(s) = {s[i] : i \in 1..Len(s)}
BY LenProperties DEF ToSet

LEMMA ContentsOfBoth ==
    ASSUME NEW S, NEW s \in Seq(S), NEW t \in Seq(S)
    PROVE  s \o t \in Seq(S) /\ ToSet(s \o t) = ToSet(s) \cup ToSet(t)
<1> DEFINE u == s \o t
<1>1. /\ u \in Seq(S)
      /\ Len(u) = Len(s) + Len(t) /\ Len(s) \in Nat /\ Len(t) \in Nat
      /\ \A j \in 1..Len(s) + Len(t) : u[j] = IF j <= Len(s) THEN s[j] ELSE t[j - Len(s)]
  BY ConcatProperties, LenProperties
<1> HIDE DEF u
<1>2. ASSUME NEW j \in 1..Len(u) PROVE u[j] \in {s[i] : i \in 1..Len(s)} \cup {t[i] : i \in 1..Len(t)}
  <2>1. CASE j <= Len(s)
    <3>1. j \in 1..Len(s) /\ u[j] = s[j] BY <2>1, <1>1
    <3> QED BY <3>1
  <2>2. CASE ~(j <= Len(s))
    <3>1. j - Len(s) \in 1..Len(t) /\ u[j] = t[j - Len(s)] BY <2>2, <1>1
    <3> QED BY <3>1
  <2> QED BY <2>1, <2>2
<1>3. ASSUME NEW i \in 1..Len(s) PROVE s[i] \in {u[j] : j \in 1..Len(u)}
  <2>1. i \in 1..Len(u) /\ u[i] = s[i] BY <1>1
  <2> QED BY <2>1
<1>4. ASSUME NEW i \in 1..Len(t) PROVE t[i] \in {u[j] : j \in 1..Len(u)}
  <2>1. /\ Len(s) + i \in 1..Len(s) + Len(t) /\ ~(Len(s) + i <= Len(s))
        /\ (Len(s) + i) - Len(s) = i
    BY <1>1
  <2>2. Len(s) + i \in 1..Len(u) /\ u[Len(s) + i] = t[i] BY <2>1, <1>1
  <2> QED BY <2>2
<1>5. ToSet(u) = ToSet(s) \cup ToSet(t)
  <2>1. /\ ToSet(u) = {u[i] : i \in 1..Len(u)}
        /\ ToSet(s) = {s[i] : i \in 1..Len(s)}
        /\ ToSet(t) = {t[i] : i \in 1..Len(t)}
    BY <1>1, Contents
  <2>2. {u[i] : i \in 1..Len(u)} \subseteq {s[i] : i \in 1..Len(s)} \cup {t[i] : i \in 1..Len(t)} BY <1>2
  <2>3. {s[i] : i \in 1..Len(s)} \subseteq {u[i] : i \in 1..Len(u)} BY <1>3
  <2>4. {t[i] : i \in 1..Len(t)} \subseteq {u[i] : i \in 1..Len(u)} BY <1>4
  <2> QED BY <2>1, <2>2, <2>3, <2>4
<1> QED BY <1>1, <1>5 DEF u

(* What is in the lists is in the list they are put together to.             *)
LEMMA Flattened ==
    ASSUME NEW S, NEW n \in Nat, NEW ss \in [1..n -> Seq(S)]
    PROVE  /\ FlattenSeq(ss) \in Seq(S)
           /\ \A x : x \in ToSet(FlattenSeq(ss)) <=> \E i \in 1..n : x \in ToSet(ss[i])
<1>1. CASE n = 0
  <2>1. ss = <<>> BY <1>1
  <2>2. FlattenSeq(ss) = <<>> BY <2>1 DEF FlattenSeq
  <2>3. ToSet(<<>>) = {} BY DEF ToSet
  <2>4. \A x : ~\E i \in 1..n : x \in ToSet(ss[i]) BY <1>1
  <2>5. <<>> \in Seq(S) BY EmptySeq
  <2> QED BY <2>2, <2>3, <2>4, <2>5
<1>2. CASE n # 0
  <2>1. ss = [i \in 1..n |-> ss[i]] OBVIOUS
  <2>2. PICK f : /\ f = [i \in 1..n |-> IF i = 1 THEN ss[i] ELSE f[i - 1] \o ss[i]]
                 /\ FlattenSeq(ss) = f[n]
    BY <1>2, <2>1, FlattenSteps
  <2> DEFINE Good(k) == f[k] \in Seq(S) /\ \A x : x \in ToSet(f[k]) <=> \E i \in 1..k : x \in ToSet(ss[i])
             T == {k \in Nat : k \in 1..n => Good(k)}
  <2>3. 0 \in T OBVIOUS
  <2>4. ASSUME NEW k \in Nat, k \in 1..n => Good(k), k + 1 \in 1..n PROVE Good(k + 1)
    <3>1. ss[k + 1] \in Seq(S) BY <2>4
    <3>2. CASE k = 0
      <4>1. f[1] = ss[1] BY <2>2, <1>2
      <4>2. f[k + 1] = ss[k + 1] /\ k + 1 = 1 BY <4>1, <3>2
      <4>3. 1..k + 1 = {1} BY <3>2
      <4> QED BY <3>1, <4>2, <4>3
    <3>3. CASE k # 0
      <4>1. k >= 1 /\ k + 1 <= n BY <2>4, <3>3
      <4>2. k \in 1..n /\ k + 1 # 1 /\ (k + 1) - 1 = k BY <4>1
      <4>3. Good(k) BY <2>4, <4>2
      <4>4. f[k + 1] = f[k] \o ss[k + 1] BY <2>2, <2>4, <4>2
      <4>5. f[k + 1] \in Seq(S) /\ ToSet(f[k + 1]) = ToSet(f[k]) \cup ToSet(ss[k + 1])
        BY <3>1, <4>3, <4>4, ContentsOfBoth
      <4>6. ASSUME NEW x PROVE x \in ToSet(f[k + 1]) <=> \E i \in 1..k + 1 : x \in ToSet(ss[i])
        <5>1. (\E i \in 1..k + 1 : x \in ToSet(ss[i])) <=> (\E i \in 1..k : x \in ToSet(ss[i])) \/ x \in ToSet(ss[k + 1])
          OBVIOUS
        <5> QED BY <4>3, <4>5, <5>1
      <4> QED BY <4>5, <4>6
    <3> QED BY <3>2, <3>3
  <2> HIDE DEF Good
  <2>5. ASSUME NEW k \in Nat, k \in T PROVE k + 1 \in T
    <3>1. k + 1 \in Nat /\ (k \in 1..n => Good(k)) BY <2>5
    <3>2. k + 1 \in 1..n => Good(k + 1) BY <2>4, <3>1
    <3> QED BY <3>1, <3>2
  <2> HIDE DEF T
  <2>6. n \in T BY <2>3, <2>5, Induction
  <2>7. n \in 1..n => Good(n) BY <2>6 DEF T
  <2>8. Good(n) BY <2>7, <1>2
  <2>9. FlattenSeq(ss) = f[n] BY <2>2
  <2> QED BY <2>8, <2>9 DEF Good
<1> QED BY <1>1, <1>2

LEMMA FlattenOne ==
    ASSUME NEW S, NEW ss \in [1..1 -> Seq(S)]
    PROVE  FlattenSeq(ss) = ss[1]
<1>1. ss = [i \in 1..1 |-> ss[i]] OBVIOUS
<1>2. PICK f : /\ f = [i \in 1..1 |-> IF i = 1 THEN ss[i] ELSE f[i - 1] \o ss[i]]
               /\ FlattenSeq(ss) = f[1]
  <2>1. 1 \in Nat \ {0} OBVIOUS
  <2> QED BY <1>1, <2>1, FlattenSteps
<1> QED BY <1>2

(* One more list is put at the end.                                          *)
LEMMA FlattenGrows ==
    ASSUME NEW S, NEW n \in Nat \ {0}, NEW ss \in [1..n + 1 -> Seq(S)]
    PROVE  FlattenSeq(ss) = FlattenSeq([i \in 1..n |-> ss[i]]) \o ss[n + 1]
<1> DEFINE rr == [i \in 1..n |-> ss[i]]
<1>1. ss = [i \in 1..n + 1 |-> ss[i]] /\ rr = [i \in 1..n |-> rr[i]] OBVIOUS
<1>2. PICK f : /\ f = [i \in 1..n + 1 |-> IF i = 1 THEN ss[i] ELSE f[i - 1] \o ss[i]]
               /\ FlattenSeq(ss) = f[n + 1]
  <2>1. n + 1 \in Nat \ {0} OBVIOUS
  <2> QED BY <1>1, <2>1, FlattenSteps
<1>3. \A i \in 1..n : rr[i] = ss[i] OBVIOUS
<1> HIDE DEF rr
<1>4. PICK g : /\ g = [i \in 1..n |-> IF i = 1 THEN rr[i] ELSE g[i - 1] \o rr[i]]
               /\ FlattenSeq(rr) = g[n]
  BY <1>1, FlattenSteps
<1> DEFINE T == {k \in Nat : k \in 1..n => f[k] = g[k]}
<1>5. 0 \in T OBVIOUS
<1>6. ASSUME NEW k \in Nat, k \in 1..n => f[k] = g[k], k + 1 \in 1..n PROVE f[k + 1] = g[k + 1]
  <2>1. k + 1 \in 1..n + 1 BY <1>6
  <2>2. CASE k = 0
    <3>1. f[1] = ss[1] /\ g[1] = rr[1] /\ rr[1] = ss[1] BY <1>2, <1>3, <1>4
    <3> QED BY <3>1, <2>2
  <2>3. CASE k # 0
    <3>0. k + 1 <= n /\ k >= 1 BY <1>6, <2>3
    <3>1. k \in 1..n /\ k + 1 # 1 /\ (k + 1) - 1 = k BY <3>0
    <3>2. f[k] = g[k] /\ rr[k + 1] = ss[k + 1] BY <1>3, <1>6, <3>1
    <3>3. f[k + 1] = f[k] \o ss[k + 1] BY <1>2, <2>1, <3>1
    <3>4. g[k + 1] = g[k] \o rr[k + 1] BY <1>4, <1>6, <3>1
    <3> QED BY <3>2, <3>3, <3>4
  <2> QED BY <2>2, <2>3
<1>7. ASSUME NEW k \in Nat, k \in T PROVE k + 1 \in T
  <2>1. k + 1 \in Nat /\ (k \in 1..n => f[k] = g[k]) BY <1>7
  <2>2. k + 1 \in 1..n => f[k + 1] = g[k + 1] BY <1>6, <2>1
  <2> QED BY <2>1, <2>2
<1> HIDE DEF T
<1>8. n \in T BY <1>5, <1>7, Induction
<1>9. f[n] = g[n] BY <1>8 DEF T
<1>10. n + 1 \in 1..n + 1 /\ n + 1 # 1 /\ (n + 1) - 1 = n OBVIOUS
<1>11. f[n + 1] = f[n] \o ss[n + 1] BY <1>2, <1>10
<1> QED BY <1>2, <1>4, <1>9, <1>11 DEF rr

-----------------------------------------------------------------------------
(* The program *)

Numbered == Modules \X Nat      \* functions, and globals
Definition == [decl : Numbered, to : Numbered \cup {Native}]
Submodule == [mod : Modules, offset : Nat]
Started == [started : {TRUE}, last : BOOLEAN, table : Seq(Numbered)]

ProgramType ==
    /\ functions \in [Modules -> Seq([name : Names, defined : BOOLEAN])]
    /\ program \in [defs : Seq(Definition), submodules : Seq(Submodule)]
    /\ process \in [Processes -> [started : {FALSE}] \cup Started]

ProgramInv == ProgramType /\ GlobalsAreReached

LEMMA Singles == ToSet(<<>>) = {} /\ \A x : ToSet(<<x>>) = {x}
BY DEF ToSet

LEMMA FunctionLists ==
    ASSUME ProgramType, NEW m \in Modules
    PROVE  /\ FunctionList(m) \in Seq(Numbered)
           /\ ToSet(FunctionList(m)) = {<<m, f>> : f \in 1..Len(functions[m])}
<1> DEFINE n == Len(functions[m])
           s == [f \in 1..n |-> <<m, f>>]
           r == FunctionList(m)
<1>1. n \in Nat BY LenProperties DEF ProgramType
<1> HIDE DEF n
<1>2. Len(s) = n BY <1>1
<1>3. r = [i \in 1..n |-> <<m, (n - i) + 1>>] BY <1>1, <1>2 DEF n, FunctionList, Reverse
<1> HIDE DEF r, s
<1>4. \A i \in 1..n : <<m, (n - i) + 1>> \in Numbered BY <1>1 DEF Numbered
<1>5. r \in Seq(Numbered)
  <2> DEFINE e(i) == <<m, (n - i) + 1>>
  <2>1. r = [i \in 1..n |-> e(i)] BY <1>3
  <2>2. \A i \in 1..n : e(i) \in Numbered BY <1>4
  <2> HIDE DEF e
  <2> QED BY <1>1, <2>1, <2>2
<1>6. DOMAIN r = 1..n BY <1>3
<1>7. ASSUME NEW j \in 1..n PROVE \E f \in 1..n : r[j] = <<m, f>>
  <2>1. (n - j) + 1 \in 1..n BY <1>1
  <2> QED BY <1>3, <2>1
<1>8. ASSUME NEW f \in 1..n PROVE \E j \in 1..n : r[j] = <<m, f>>
  <2>1. (n - f) + 1 \in 1..n /\ (n - ((n - f) + 1)) + 1 = f BY <1>1
  <2>2. r[(n - f) + 1] = <<m, (n - ((n - f) + 1)) + 1>> BY <1>3, <2>1
  <2> QED BY <2>1, <2>2
<1>9. ToSet(r) = {<<m, f>> : f \in 1..n} BY <1>6, <1>7, <1>8 DEF ToSet
<1> QED BY <1>5, <1>9 DEF n, r

LEMMA LinkedModules ==
    ASSUME ProgramType
    PROVE  /\ Len(program.submodules) \in Nat
           /\ DOMAIN program.submodules = 1..Len(program.submodules)
           /\ \A i \in 1..Len(program.submodules) : program.submodules[i] \in Submodule
           /\ \A i \in 1..Len(program.submodules) : program.submodules[i].mod \in Modules
           /\ Linked \subseteq Modules
<1>1. program.submodules \in Seq(Submodule) BY DEF ProgramType
<1>2. /\ Len(program.submodules) \in Nat
      /\ DOMAIN program.submodules = 1..Len(program.submodules)
      /\ \A i \in 1..Len(program.submodules) : program.submodules[i] \in Submodule
  BY <1>1, LenProperties
<1>3. \A i \in 1..Len(program.submodules) : program.submodules[i].mod \in Modules BY <1>2 DEF Submodule
<1>4. Main \in Modules BY DEF Modules
<1> QED BY <1>2, <1>3, <1>4 DEF Linked

(* The functions that have no definition are the declarations of the modules *)
(* that are linked.                                                          *)
LEMMA Undefined ==
    ASSUME ProgramType
    PROVE  /\ UndefinedFunctions \in Seq(Numbered)
           /\ ToSet(UndefinedFunctions) = UNION {Declarations(m) : m \in Linked}
<1> DEFINE subs == program.submodules
           n == Len(subs)
           tail == [i \in DOMAIN subs |-> FunctionList(subs[i].mod)]
           ss == <<FunctionList(Main)>> \o tail
           all == FlattenSeq(ss)
           C == {fn \in Numbered : ~functions[fn[1]][fn[2]].defined}
           chosen == [i \in DOMAIN all |-> IF ~functions[all[i][1]][all[i][2]].defined THEN <<all[i]>> ELSE <<>>]
<1>1. n \in Nat /\ DOMAIN subs = 1..n /\ \A i \in 1..n : subs[i].mod \in Linked /\ subs[i].mod \in Modules
  BY LinkedModules DEF Linked
<1>2. Main \in Linked /\ Main \in Modules BY DEF Linked, Modules
<1> HIDE DEF n
<1>3. /\ FunctionList(Main) \in Seq(Numbered)
      /\ \A i \in 1..n : FunctionList(subs[i].mod) \in Seq(Numbered)
  BY <1>1, <1>2, FunctionLists
<1>4. tail \in Seq(Seq(Numbered)) /\ Len(tail) = n /\ \A i \in 1..n : tail[i] = FunctionList(subs[i].mod)
  BY <1>1, <1>3
<1>5. UndefinedFunctions = FlattenSeq(chosen) BY DEF UndefinedFunctions, Where
<1> HIDE DEF tail
<1> DEFINE head == <<FunctionList(Main)>>
<1>6. head \in Seq(Seq(Numbered)) /\ Len(head) = 1 /\ head[1] = FunctionList(Main) BY <1>3
<1> HIDE DEF head
<1>7. /\ ss \in Seq(Seq(Numbered)) /\ Len(ss) = n + 1 /\ ss[1] = FunctionList(Main)
      /\ \A i \in 1..n : ss[i + 1] = FunctionList(subs[i].mod)
  <2>1. /\ ss \in Seq(Seq(Numbered)) /\ Len(ss) = Len(head) + Len(tail)
        /\ \A i \in 1..Len(head) + Len(tail) : ss[i] = IF i <= Len(head) THEN head[i] ELSE tail[i - Len(head)]
    BY <1>4, <1>6, ConcatProperties DEF head
  <2> HIDE DEF ss
  <2>2. ASSUME NEW i \in 1..n PROVE ss[i + 1] = FunctionList(subs[i].mod)
    <3>1. i + 1 \in 1..1 + n /\ ~(i + 1 <= 1) /\ (i + 1) - 1 = i BY <1>1
    <3> QED BY <3>1, <2>1, <1>4, <1>6
  <2>3. 1 \in 1..1 + n BY <1>1
  <2> QED BY <1>1, <1>4, <1>6, <2>1, <2>2, <2>3
<1> HIDE DEF ss
<1>8. ss \in [1..n + 1 -> Seq(Numbered)] BY <1>7, LenProperties
<1>9. n + 1 \in Nat BY <1>1
<1>10. all \in Seq(Numbered) /\ \A x : x \in ToSet(all) <=> \E i \in 1..n + 1 : x \in ToSet(ss[i])
  BY <1>8, <1>9, Flattened, Zenon
<1> HIDE DEF all
<1>11. DOMAIN all = 1..Len(all) /\ \A i \in 1..Len(all) : all[i] \in Numbered BY <1>10, LenProperties
<1> DEFINE N == Len(all)
<1>12. N \in Nat /\ ToSet(all) = {all[i] : i \in 1..N} BY <1>10, LenProperties, Contents
<1>13. chosen = [i \in 1..N |-> IF all[i] \in C THEN <<all[i]>> ELSE <<>>] BY <1>11
<1> HIDE DEF chosen, C, N
<1>14. \A i \in 1..N : all[i] \in Numbered BY <1>11 DEF N
<1>15. chosen \in [1..N -> Seq(Numbered)] BY <1>13, <1>14
<1>16. \A i \in 1..N : ToSet(chosen[i]) = IF all[i] \in C THEN {all[i]} ELSE {} BY <1>13, Singles
<1>17. N \in Nat BY <1>12
<1>18. /\ UndefinedFunctions \in Seq(Numbered)
       /\ \A x : x \in ToSet(UndefinedFunctions) <=> \E i \in 1..N : x \in ToSet(chosen[i])
  BY <1>5, <1>15, <1>17, Flattened, Zenon
<1>19. UndefinedFunctions \in Seq(Numbered) /\ ToSet(UndefinedFunctions) = ToSet(all) \cap C
  <2>1. ASSUME NEW x PROVE x \in ToSet(UndefinedFunctions) <=> x \in ToSet(all) /\ x \in C
    <3>1. x \in ToSet(all) <=> \E i \in 1..N : x = all[i] BY <1>12
    <3>2. \A i \in 1..N : x \in ToSet(chosen[i]) <=> x = all[i] /\ x \in C BY <1>16
    <3> QED BY <3>1, <3>2, <1>18
  <2> QED BY <2>1, <1>18
<1>20. \A x : x \in ToSet(all) <=> \E m \in Linked : x \in ToSet(FunctionList(m))
  <2>1. ASSUME NEW i \in 1..n + 1 PROVE \E m \in Linked : ss[i] = FunctionList(m)
    <3>1. CASE i = 1 BY <3>1, <1>2, <1>7
    <3>2. CASE i # 1
      <4>1. i - 1 \in 1..n /\ (i - 1) + 1 = i BY <3>2, <1>1
      <4>2. ss[i] = FunctionList(subs[i - 1].mod) BY <4>1, <1>7
      <4> QED BY <4>1, <4>2, <1>1
    <3> QED BY <3>1, <3>2
  <2>2. ASSUME NEW m \in Linked PROVE \E i \in 1..n + 1 : ss[i] = FunctionList(m)
    <3>1. CASE m = Main
      <4>1. 1 \in 1..n + 1 BY <1>1
      <4> QED BY <4>1, <3>1, <1>7
    <3>2. CASE m # Main
      <4>1. PICK i \in 1..n : m = subs[i].mod BY <3>2, <1>1 DEF Linked
      <4>2. i + 1 \in 1..n + 1 BY <1>1
      <4> QED BY <4>1, <4>2, <1>7
    <3> QED BY <3>1, <3>2
  <2> QED BY <2>1, <2>2, <1>10
<1>21. \A m \in Linked : ToSet(FunctionList(m)) \cap C = Declarations(m)
  <2> SUFFICES ASSUME NEW m \in Linked PROVE ToSet(FunctionList(m)) \cap C = Declarations(m) OBVIOUS
  <2>1. m \in Modules BY LinkedModules
  <2>2. ToSet(FunctionList(m)) = {<<m, f>> : f \in 1..Len(functions[m])} BY <2>1, FunctionLists
  <2>3. Len(functions[m]) \in Nat BY <2>1, LenProperties DEF ProgramType
  <2>4. \A f \in 1..Len(functions[m]) : <<m, f>> \in C <=> ~functions[m][f].defined
    BY <2>1, <2>3 DEF C, Numbered
  <2> QED BY <2>2, <2>4 DEF Declarations
<1>22. ToSet(all) \cap C = UNION {Declarations(m) : m \in Linked}
  <2> SUFFICES ASSUME NEW x PROVE x \in ToSet(all) \cap C <=> \E m \in Linked : x \in Declarations(m) OBVIOUS
  <2> QED BY <1>20, <1>21
<1> QED BY <1>19, <1>22, Zenon

(* The first function with the name that has no definition.                  *)
LEMMA FirstWithName ==
    ASSUME ProgramType, NEW name
    PROVE  /\ FirstNamed(name) # 0 => /\ FirstNamed(name) \in 1..Len(UndefinedFunctions)
                                      /\ UndefinedFunctions[FirstNamed(name)] \in Numbered
                                      /\ Name(UndefinedFunctions[FirstNamed(name)]) = name
           /\ \A fn \in ToSet(UndefinedFunctions) : Name(fn) = name => FirstNamed(name) # 0
<1> DEFINE U == UndefinedFunctions
           I == {i \in 1..Len(U) : Name(U[i]) = name}
<1>1. U \in Seq(Numbered) BY Undefined
<1>2. FirstNamed(name) = IF I # {} THEN Min(I) ELSE 0 BY DEF FirstNamed, SelectInSeq
<1>3. /\ Len(U) \in Nat /\ (\A i \in 1..Len(U) : U[i] \in Numbered)
      /\ ToSet(U) = {U[i] : i \in 1..Len(U)}
  BY <1>1, LenProperties, Contents
<1>4. I \subseteq 1..Len(U) /\ \A i \in I : Name(U[i]) = name OBVIOUS
<1>5. \A i \in 1..Len(U) : Name(U[i]) = name => i \in I OBVIOUS
<1> HIDE DEF U, I
<1>6. I \subseteq Nat BY <1>3, <1>4
<1>7. I # {} => Min(I) \in I BY <1>6, FirstIndex
<1>8. ASSUME FirstNamed(name) # 0
      PROVE  FirstNamed(name) \in 1..Len(U) /\ U[FirstNamed(name)] \in Numbered /\ Name(U[FirstNamed(name)]) = name
  <2>1. FirstNamed(name) \in I BY <1>2, <1>7, <1>8
  <2> QED BY <2>1, <1>3, <1>4
<1>9. ASSUME NEW fn \in ToSet(U), Name(fn) = name PROVE FirstNamed(name) # 0
  <2>1. PICK i \in 1..Len(U) : fn = U[i] BY <1>3
  <2>2. i \in I BY <2>1, <1>5, <1>9
  <2>3. Min(I) \in 1..Len(U) BY <2>2, <1>4, <1>7
  <2> QED BY <1>2, <1>3, <2>2, <2>3
<1> QED BY <1>8, <1>9 DEF U

(* The first definition of fn in a list, and what it is.                    *)
IndexIn(defs, fn) == SelectInSeq(defs, LAMBDA def : def.decl = fn)
DefinitionIn(defs, fn) == IF IndexIn(defs, fn) = 0 THEN NoDefinition ELSE defs[IndexIn(defs, fn)].to

LEMMA FirstDefinition ==
    ASSUME NEW defs \in Seq(Definition), NEW fn
    PROVE  /\ IndexIn(defs, fn) # 0 => IndexIn(defs, fn) \in 1..Len(defs) /\ defs[IndexIn(defs, fn)].decl = fn
           /\ \A k \in 1..Len(defs) : defs[k].decl = fn => IndexIn(defs, fn) # 0 /\ IndexIn(defs, fn) <= k
<1> DEFINE I == {k \in 1..Len(defs) : defs[k].decl = fn}
           i == IndexIn(defs, fn)
<1>1. i = IF I # {} THEN Min(I) ELSE 0 BY DEF IndexIn, SelectInSeq
<1>2. \A k \in 1..Len(defs) : k \in I <=> defs[k].decl = fn OBVIOUS
<1>3. I \subseteq 1..Len(defs) /\ I \subseteq Nat OBVIOUS
<1>4. Len(defs) \in Nat BY LenProperties
<1> HIDE DEF i, I
<1>5. CASE I = {} BY <1>1, <1>2, <1>5 DEF i
<1>6. CASE I # {}
  <2>1. Min(I) \in I /\ \A k \in I : Min(I) <= k BY <1>3, <1>6, FirstIndex
  <2>2. i = Min(I) BY <1>1, <1>6
  <2>3. i \in 1..Len(defs) /\ i \in I BY <1>3, <2>1, <2>2
  <2>4. i # 0 /\ defs[i].decl = fn BY <1>2, <1>4, <2>3
  <2>5. \A k \in 1..Len(defs) : defs[k].decl = fn => i <= k BY <1>2, <2>1, <2>2
  <2> QED BY <2>3, <2>4, <2>5 DEF i
<1> QED BY <1>5, <1>6

LEMMA DefinitionsAreSome ==
    ASSUME NEW defs \in Seq(Definition), NEW fn, NEW k \in 1..Len(defs), defs[k].decl = fn
    PROVE  DefinitionIn(defs, fn) # NoDefinition
<1> DEFINE i == IndexIn(defs, fn)
<1>1. i \in 1..Len(defs) /\ i # 0 BY FirstDefinition
<1> HIDE DEF i
<1>2. defs[i] \in Definition BY <1>1, LenProperties
<1>3. DefinitionIn(defs, fn) \in Numbered \cup {Native} BY <1>1, <1>2 DEF Definition, DefinitionIn, i
<1>4. Len(<<>>) = 0 BY EmptySeq
<1>5. ASSUME NEW d \in Numbered PROVE d # <<>>
  <2>1. Len(d) = 2 BY DEF Numbered
  <2>2. Len(d) # Len(<<>>) BY <2>1, <1>4
  <2> QED BY <2>2, Zenon
<1>6. Native # <<>>
  <2>1. Len(Native) = 1 BY DEF Native
  <2>2. Len(Native) # Len(<<>>) BY <2>1, <1>4
  <2> QED BY <2>2, Zenon
<1> QED BY <1>3, <1>5, <1>6 DEF NoDefinition

LEMMA DefinitionsAddedLater ==
    ASSUME NEW defs \in Seq(Definition), NEW new \in Seq(Definition), NEW fn,
           DefinitionIn(defs, fn) # NoDefinition
    PROVE  DefinitionIn(defs \o new, fn) = DefinitionIn(defs, fn)
<1> DEFINE more == defs \o new
           i == IndexIn(defs, fn)
           j == IndexIn(more, fn)
<1>1. /\ more \in Seq(Definition)
      /\ Len(more) = Len(defs) + Len(new) /\ Len(defs) \in Nat /\ Len(new) \in Nat
      /\ \A k \in 1..Len(defs) + Len(new) : more[k] = IF k <= Len(defs) THEN defs[k] ELSE new[k - Len(defs)]
  BY ConcatProperties, LenProperties
<1>2. DefinitionIn(defs, fn) = IF i = 0 THEN NoDefinition ELSE defs[i].to BY DEF DefinitionIn
<1>3. DefinitionIn(more, fn) = IF j = 0 THEN NoDefinition ELSE more[j].to BY DEF DefinitionIn
<1>4. i # 0 BY <1>2
<1> HIDE DEF more
<1>5. i \in 1..Len(defs) /\ defs[i].decl = fn /\ \A k \in 1..Len(defs) : defs[k].decl = fn => i <= k
  BY <1>4, FirstDefinition
<1>6. /\ j # 0 => j \in 1..Len(more) /\ more[j].decl = fn
      /\ \A k \in 1..Len(more) : more[k].decl = fn => j # 0 /\ j <= k
  BY <1>1, FirstDefinition
<1> HIDE DEF i, j
<1>7. i \in 1..Len(more) /\ more[i] = defs[i] BY <1>1, <1>5
<1>8. j \in 1..Len(more) /\ more[j].decl = fn /\ j <= i BY <1>5, <1>6, <1>7
<1>9. j \in 1..Len(defs) /\ more[j] = defs[j] BY <1>1, <1>5, <1>8
<1>10. j = i BY <1>5, <1>8, <1>9
<1> QED BY <1>2, <1>3, <1>4, <1>7, <1>10 DEF more

-----------------------------------------------------------------------------
(* The table of globals *)

LEMMA GlobalLists ==
    ASSUME TypeOK, NEW m \in Modules
    PROVE  /\ GlobalTable(m) \in Seq(Numbered)
           /\ Len(globals[m]) \in Nat
           /\ Len(GlobalTable(m)) = Len(globals[m])
           /\ \A g \in 1..Len(globals[m]) : GlobalTable(m)[g] = <<m, g>>
<1> DEFINE n == Len(globals[m])
           e(g) == <<m, g>>
<1>1. n \in Nat BY LenProperties DEF TypeOK
<1>2. GlobalTable(m) = [g \in 1..n |-> e(g)] BY DEF GlobalTable
<1> HIDE DEF n
<1>3. \A g \in 1..n : e(g) \in Numbered BY DEF Numbered
<1> HIDE DEF e
<1>4. GlobalTable(m) \in Seq(Numbered) /\ Len(GlobalTable(m)) = n /\ \A g \in 1..n : GlobalTable(m)[g] = e(g)
  BY <1>1, <1>2, <1>3
<1> QED BY <1>1, <1>4 DEF n, e

(* The tables of the main module and of the first n submodules.              *)
Tables(n) == <<GlobalTable(Main)>> \o [i \in 1..n |-> GlobalTable(program.submodules[i].mod)]

LEMMA TablesAre ==
    ASSUME TypeOK, ProgramType, NEW n \in 0..Len(program.submodules)
    PROVE  /\ Tables(n) \in [1..n + 1 -> Seq(Numbered)]
           /\ Tables(n)[1] = GlobalTable(Main)
           /\ \A i \in 1..n : Tables(n)[i + 1] = GlobalTable(program.submodules[i].mod)
<1> DEFINE head == <<GlobalTable(Main)>>
           tail == [i \in 1..n |-> GlobalTable(program.submodules[i].mod)]
           ss == head \o tail
<1>1. n \in Nat /\ \A i \in 1..n : program.submodules[i].mod \in Modules BY LinkedModules
<1>2. Main \in Modules BY DEF Modules
<1>3. /\ GlobalTable(Main) \in Seq(Numbered)
      /\ \A i \in 1..n : GlobalTable(program.submodules[i].mod) \in Seq(Numbered)
  BY <1>1, <1>2, GlobalLists
<1>4. /\ tail \in Seq(Seq(Numbered)) /\ Len(tail) = n
      /\ \A i \in 1..n : tail[i] = GlobalTable(program.submodules[i].mod)
  BY <1>1, <1>3
<1>5. head \in Seq(Seq(Numbered)) /\ Len(head) = 1 /\ head[1] = GlobalTable(Main) BY <1>3
<1>6. Tables(n) = ss BY DEF Tables
<1> HIDE DEF tail, head
<1>7. /\ ss \in Seq(Seq(Numbered)) /\ Len(ss) = Len(head) + Len(tail)
      /\ \A i \in 1..Len(head) + Len(tail) : ss[i] = IF i <= Len(head) THEN head[i] ELSE tail[i - Len(head)]
  BY <1>4, <1>5, ConcatProperties
<1> HIDE DEF ss
<1>8. ASSUME NEW i \in 1..n PROVE ss[i + 1] = GlobalTable(program.submodules[i].mod)
  <2>1. i + 1 \in 1..1 + n /\ ~(i + 1 <= 1) /\ (i + 1) - 1 = i BY <1>1
  <2> QED BY <2>1, <1>4, <1>5, <1>7
<1>9. 1 \in 1..1 + n BY <1>1
<1>10. ss[1] = GlobalTable(Main) BY <1>4, <1>5, <1>7, <1>9
<1>11. Len(ss) = n + 1 BY <1>1, <1>4, <1>5, <1>7
<1>12. ss \in [1..n + 1 -> Seq(Numbered)] BY <1>7, <1>11, LenProperties
<1> QED BY <1>6, <1>8, <1>10, <1>12

LEMMA FirstTable ==
    ASSUME TypeOK, ProgramType
    PROVE  TableOf(0) = GlobalTable(Main)
<1>1. 0 \in 0..Len(program.submodules) BY LinkedModules
<1>2. Tables(0) \in [1..0 + 1 -> Seq(Numbered)] /\ Tables(0)[1] = GlobalTable(Main) BY <1>1, TablesAre
<1>3. Tables(0) \in [1..1 -> Seq(Numbered)] BY <1>2
<1>4. TableOf(0) = FlattenSeq(Tables(0)) BY DEF TableOf, Tables
<1> QED BY <1>2, <1>3, <1>4, FlattenOne

LEMMA NextTable ==
    ASSUME TypeOK, ProgramType, NEW n \in 1..Len(program.submodules)
    PROVE  TableOf(n) = TableOf(n - 1) \o GlobalTable(program.submodules[n].mod)
<1> DEFINE ss == Tables(n)
           rr == Tables(n - 1)
<1>1. n \in Nat \ {0} /\ n \in 0..Len(program.submodules) /\ n - 1 \in 0..Len(program.submodules) /\ n - 1 + 1 = n
  BY LinkedModules
<1>2. /\ ss \in [1..n + 1 -> Seq(Numbered)]
      /\ ss[1] = GlobalTable(Main)
      /\ \A i \in 1..n : ss[i + 1] = GlobalTable(program.submodules[i].mod)
  BY <1>1, TablesAre
<1>3. /\ rr \in [1..n - 1 + 1 -> Seq(Numbered)]
      /\ rr[1] = GlobalTable(Main)
      /\ \A i \in 1..n - 1 : rr[i + 1] = GlobalTable(program.submodules[i].mod)
  BY <1>1, TablesAre
<1>4. TableOf(n) = FlattenSeq(ss) /\ TableOf(n - 1) = FlattenSeq(rr) BY DEF TableOf, Tables
<1> HIDE DEF ss, rr
<1>5. rr \in [1..n -> Seq(Numbered)] BY <1>1, <1>3
<1>6. ASSUME NEW i \in 1..n PROVE rr[i] = ss[i]
  <2>1. CASE i = 1 BY <2>1, <1>2, <1>3
  <2>2. CASE i # 1
    <3>1. i - 1 \in 1..n - 1 /\ i - 1 \in 1..n /\ i - 1 + 1 = i BY <2>2
    <3>2. rr[i] = GlobalTable(program.submodules[i - 1].mod) BY <1>3, <3>1
    <3>3. ss[i] = GlobalTable(program.submodules[i - 1].mod) BY <1>2, <3>1
    <3> QED BY <3>2, <3>3
  <2> QED BY <2>1, <2>2
<1>7. rr = [i \in 1..n |-> ss[i]] BY <1>5, <1>6
<1>8. ss \in [1..n + 1 -> Seq(Numbered)] /\ n \in Nat \ {0} BY <1>1, <1>2
<1>9. FlattenSeq(ss) = FlattenSeq([i \in 1..n |-> ss[i]]) \o ss[n + 1] BY <1>8, FlattenGrows, Zenon
<1>10. n \in 1..n BY <1>1
<1>11. ss[n + 1] = GlobalTable(program.submodules[n].mod) BY <1>2, <1>10
<1> QED BY <1>4, <1>7, <1>9, <1>11, Zenon

(* Where the globals are in the table of the first n submodules.             *)
Placed(n) ==
    LET t == TableOf(n)
    IN  /\ t \in Seq(Numbered)
        /\ \A j \in 1..Len(t) : \E m \in Modules : \E g \in 1..Len(globals[m]) : t[j] = <<m, g>>
        /\ \A g \in 1..Len(globals[Main]) : g \in 1..Len(t) /\ t[g] = <<Main, g>>
        /\ \A i \in 1..n : \A g \in 1..Len(globals[program.submodules[i].mod]) :
              g + OffsetOf(i) \in 1..Len(t) /\ t[g + OffsetOf(i)] = <<program.submodules[i].mod, g>>

LEMMA FirstPlaces == ASSUME TypeOK, ProgramType PROVE Placed(0)
<1> DEFINE t == TableOf(0)
<1>1. Main \in Modules BY DEF Modules
<1>2. /\ t \in Seq(Numbered) /\ Len(globals[Main]) \in Nat /\ Len(t) = Len(globals[Main])
      /\ \A g \in 1..Len(globals[Main]) : t[g] = <<Main, g>>
  BY <1>1, FirstTable, GlobalLists
<1> HIDE DEF t
<1>3. 1..0 = {} OBVIOUS
<1> QED BY <1>1, <1>2, <1>3 DEF Placed, t

LEMMA NextPlaces ==
    ASSUME TypeOK, ProgramType, NEW n \in 1..Len(program.submodules), Placed(n - 1)
    PROVE  Placed(n)
<1> DEFINE m == program.submodules[n].mod
           s == TableOf(n - 1)
           u == GlobalTable(m)
           t == TableOf(n)
<1>1. m \in Modules /\ n \in Nat BY LinkedModules
<1>2. /\ u \in Seq(Numbered) /\ Len(globals[m]) \in Nat /\ Len(u) = Len(globals[m])
      /\ \A g \in 1..Len(globals[m]) : u[g] = <<m, g>>
  BY <1>1, GlobalLists
<1>3. /\ s \in Seq(Numbered)
      /\ \A j \in 1..Len(s) : \E k \in Modules : \E g \in 1..Len(globals[k]) : s[j] = <<k, g>>
      /\ \A g \in 1..Len(globals[Main]) : g \in 1..Len(s) /\ s[g] = <<Main, g>>
      /\ \A i \in 1..n - 1 : \A g \in 1..Len(globals[program.submodules[i].mod]) :
            g + OffsetOf(i) \in 1..Len(s) /\ s[g + OffsetOf(i)] = <<program.submodules[i].mod, g>>
  BY DEF Placed
<1>4. t = s \o u BY NextTable
<1>5. OffsetOf(n) = Len(s) BY DEF OffsetOf
<1> HIDE DEF s, t, u, m
<1>6. /\ t \in Seq(Numbered)
      /\ Len(t) = Len(s) + Len(u) /\ Len(s) \in Nat /\ Len(u) \in Nat
      /\ \A j \in 1..Len(s) + Len(u) : t[j] = IF j <= Len(s) THEN s[j] ELSE u[j - Len(s)]
  BY <1>2, <1>3, <1>4, ConcatProperties, LenProperties
<1>7. \A j \in 1..Len(s) : j \in 1..Len(t) /\ t[j] = s[j] BY <1>6
<1>8. ASSUME NEW g \in 1..Len(globals[m])
      PROVE  g + Len(s) \in 1..Len(t) /\ t[g + Len(s)] = <<m, g>>
  <2>1. /\ g + Len(s) \in 1..Len(s) + Len(u) /\ ~(g + Len(s) <= Len(s))
        /\ (g + Len(s)) - Len(s) = g
    BY <1>2, <1>6
  <2> QED BY <2>1, <1>2, <1>6
<1>9. ASSUME NEW j \in 1..Len(t) PROVE \E k \in Modules : \E g \in 1..Len(globals[k]) : t[j] = <<k, g>>
  <2>1. CASE j <= Len(s)
    <3>1. j \in 1..Len(s) /\ t[j] = s[j] BY <2>1, <1>6, <1>7
    <3> QED BY <3>1, <1>3
  <2>2. CASE ~(j <= Len(s))
    <3>1. j - Len(s) \in 1..Len(globals[m]) /\ (j - Len(s)) + Len(s) = j BY <2>2, <1>2, <1>6
    <3>2. t[j] = <<m, j - Len(s)>> BY <3>1, <1>8
    <3> QED BY <3>1, <3>2, <1>1
  <2> QED BY <2>1, <2>2
<1>10. \A g \in 1..Len(globals[Main]) : g \in 1..Len(t) /\ t[g] = <<Main, g>> BY <1>3, <1>7
<1>11. ASSUME NEW i \in 1..n, NEW g \in 1..Len(globals[program.submodules[i].mod])
       PROVE  g + OffsetOf(i) \in 1..Len(t) /\ t[g + OffsetOf(i)] = <<program.submodules[i].mod, g>>
  <2>1. CASE i = n BY <2>1, <1>5, <1>8 DEF m
  <2>2. CASE i # n
    <3>1. i \in 1..n - 1 BY <2>2, <1>1
    <3> QED BY <3>1, <1>3, <1>7
  <2> QED BY <2>1, <2>2
<1> QED BY <1>6, <1>9, <1>10, <1>11 DEF Placed, t

LEMMA GlobalsPlaced ==
    ASSUME TypeOK, ProgramType, NEW n \in 0..Len(program.submodules)
    PROVE  Placed(n)
<1> DEFINE T == {k \in Nat : k \in 0..Len(program.submodules) => Placed(k)}
<1>1. 0 \in T BY FirstPlaces
<1>2. ASSUME NEW k \in Nat, k \in T PROVE k + 1 \in T
  <2>1. k + 1 \in Nat /\ (k \in 0..Len(program.submodules) => Placed(k)) BY <1>2
  <2>2. Len(program.submodules) \in Nat BY LinkedModules
  <2>3. ASSUME k + 1 \in 0..Len(program.submodules) PROVE Placed(k + 1)
    <3>1. /\ k \in 0..Len(program.submodules) /\ k + 1 \in 1..Len(program.submodules)
          /\ (k + 1) - 1 = k
      BY <2>2, <2>3
    <3>2. Placed((k + 1) - 1) BY <2>1, <3>1
    <3> QED BY <3>1, <3>2, NextPlaces
  <2> QED BY <2>1, <2>3
<1> HIDE DEF T
<1>3. n \in T
  <2>1. n \in Nat BY LinkedModules
  <2> QED BY <1>1, <1>2, <2>1, Induction
<1> QED BY <1>3 DEF T

-----------------------------------------------------------------------------
(* Steps of the program and the processes *)

(* The first of some submodules that is the module m.                        *)
PlaceIn(subs, m) == SelectInSeq(subs, LAMBDA s : s.mod = m)

LEMMA FirstPlace ==
    ASSUME NEW subs \in Seq(Submodule), NEW i \in 1..Len(subs)
    PROVE  /\ PlaceIn(subs, subs[i].mod) \in 1..Len(subs)
           /\ subs[PlaceIn(subs, subs[i].mod)].mod = subs[i].mod
<1> DEFINE m == subs[i].mod
           I == {k \in 1..Len(subs) : subs[k].mod = m}
<1>1. PlaceIn(subs, m) = IF I # {} THEN Min(I) ELSE 0 BY DEF PlaceIn, SelectInSeq
<1>2. i \in I /\ I \subseteq 1..Len(subs) /\ \A k \in I : subs[k].mod = m OBVIOUS
<1> HIDE DEF I, m
<1>3. I \subseteq Nat BY <1>2, LenProperties
<1>4. Min(I) \in I BY <1>2, <1>3, FirstIndex
<1>5. PlaceIn(subs, m) \in I BY <1>1, <1>2, <1>4
<1> QED BY <1>2, <1>5 DEF m

(* A table has the globals where the submodules say.                         *)
ReachedIn(table, subs) ==
    \A m \in {Main} \cup {subs[i].mod : i \in DOMAIN subs} : \A i \in DOMAIN table :
        table[i][1] = m =>
            table[IF m = Main THEN table[i][2] ELSE table[i][2] + subs[PlaceIn(subs, m)].offset] = table[i]

AllReached ==
    \A p \in Processes : process[p].started /\ process[p].last => ReachedIn(process[p].table, program.submodules)

LEMMA ReachedMeans == GlobalsAreReached <=> AllReached
BY DEF GlobalsAreReached, AllReached, ReachedIn, Linked, GlobalIndex, PlaceIn

LEMMA ReachedMeansNext ==
    GlobalsAreReached' <=> \A p \in Processes : process'[p].started /\ process'[p].last =>
                               ReachedIn(process'[p].table, program'.submodules)
<1>1. GlobalsAreReached' <=> AllReached' BY ReachedMeans, PTL
<1> QED BY <1>1 DEF AllReached

LEMMA StartStep ==
    ASSUME TypeOK, ProgramInv, NEW p \in Processes, Start(p)
    PROVE  ProgramInv'
<1> DEFINE subs == program.submodules
           N == Len(subs)
           table == TableOf(N)
           subs2 == [i \in DOMAIN subs |-> [mod |-> subs[i].mod, offset |-> OffsetOf(i)]]
<1>1. ProgramType BY DEF ProgramInv
<1>2. /\ N \in Nat /\ DOMAIN subs = 1..N
      /\ \A i \in 1..N : subs[i].mod \in Modules
  BY <1>1, LinkedModules
<1>3. N \in 0..N BY <1>2
<1>4. Placed(N) BY <1>1, <1>3, GlobalsPlaced
<1>5. \A i \in 1..N : OffsetOf(i) \in Nat
  <2> SUFFICES ASSUME NEW i \in 1..N PROVE OffsetOf(i) \in Nat OBVIOUS
  <2>1. i - 1 \in 0..N BY <1>2
  <2>2. Placed(i - 1) BY <1>1, <2>1, GlobalsPlaced
  <2>3. TableOf(i - 1) \in Seq(Numbered) BY <2>2 DEF Placed
  <2> QED BY <2>3, LenProperties DEF OffsetOf
<1>6. /\ table \in Seq(Numbered)
      /\ \A j \in 1..Len(table) : \E m \in Modules : \E g \in 1..Len(globals[m]) : table[j] = <<m, g>>
      /\ \A g \in 1..Len(globals[Main]) : g \in 1..Len(table) /\ table[g] = <<Main, g>>
      /\ \A i \in 1..N : \A g \in 1..Len(globals[subs[i].mod]) :
            g + OffsetOf(i) \in 1..Len(table) /\ table[g + OffsetOf(i)] = <<subs[i].mod, g>>
  BY <1>4 DEF Placed
<1>7. /\ process' = [q \in Processes |->
                        IF q = p THEN [started |-> TRUE, last |-> TRUE, table |-> table]
                        ELSE IF process[q].started THEN [process[q] EXCEPT !.last = FALSE]
                        ELSE process[q]]
      /\ program' = [program EXCEPT !.submodules = subs2]
      /\ functions' = functions
  BY DEF Start
<1> HIDE DEF table
<1>8. /\ subs2 \in Seq(Submodule) /\ Len(subs2) = N
      /\ \A i \in 1..N : subs2[i] = [mod |-> subs[i].mod, offset |-> OffsetOf(i)]
  <2> DEFINE e(i) == [mod |-> subs[i].mod, offset |-> OffsetOf(i)]
  <2>1. subs2 = [i \in 1..N |-> e(i)] BY <1>2
  <2>2. \A i \in 1..N : e(i) \in Submodule BY <1>2, <1>5 DEF Submodule
  <2> HIDE DEF e, subs2, N
  <2>3. subs2 \in Seq(Submodule) /\ Len(subs2) = N /\ \A i \in 1..N : subs2[i] = e(i) BY <1>2, <2>1, <2>2
  <2> QED BY <2>3 DEF e
<1> HIDE DEF subs2, N
<1>9. program' \in [defs : Seq(Definition), submodules : Seq(Submodule)] /\ program'.submodules = subs2
  BY <1>1, <1>7, <1>8 DEF ProgramType
<1>10. ASSUME NEW q \in Processes
       PROVE  /\ process'[q] \in [started : {FALSE}] \cup Started
              /\ process'[q].started /\ process'[q].last => q = p
  <2>1. process[q] \in [started : {FALSE}] \cup Started BY <1>1 DEF ProgramType
  <2>2. CASE q = p
    <3>1. process'[q] = [started |-> TRUE, last |-> TRUE, table |-> table] BY <2>2, <1>7
    <3>2. table \in Seq(Numbered) BY <1>6
    <3>3. process'[q] \in Started BY <3>1, <3>2 DEF Started
    <3> QED BY <3>3, <2>2
  <2>3. CASE q # p /\ process[q] \in Started
    <3>1. process'[q] = [process[q] EXCEPT !.last = FALSE] BY <2>3, <1>7 DEF Started
    <3>2. process'[q] \in Started /\ ~process'[q].last BY <2>3, <3>1 DEF Started
    <3> QED BY <3>2
  <2>4. CASE q # p /\ process[q] \in [started : {FALSE}]
    <3>1. ~process[q].started BY <2>4
    <3>2. process'[q] = process[q] BY <2>4, <3>1, <1>7
    <3> QED BY <2>1, <3>1, <3>2
  <2> QED BY <2>1, <2>2, <2>3, <2>4
<1>11. ProgramType' BY <1>1, <1>7, <1>9, <1>10 DEF ProgramType
<1>12. process'[p].table = table BY <1>7
<1>13. ReachedIn(table, subs2)
  <2> SUFFICES ASSUME NEW m \in {Main} \cup {subs2[i].mod : i \in DOMAIN subs2},
                      NEW j \in DOMAIN table, table[j][1] = m
               PROVE  table[IF m = Main THEN table[j][2] ELSE table[j][2] + subs2[PlaceIn(subs2, m)].offset] = table[j]
    BY DEF ReachedIn
  <2>1. j \in 1..Len(table) BY <1>6, LenProperties
  <2>2. PICK k \in Modules : \E g \in 1..Len(globals[k]) : table[j] = <<k, g>> BY <2>1, <1>6
  <2>3. PICK g \in 1..Len(globals[k]) : table[j] = <<k, g>> BY <2>2
  <2>4. k = m /\ table[j] = <<m, g>> /\ table[j][2] = g BY <2>3
  <2>5. CASE m = Main
    <3>1. table[g] = <<Main, g>> BY <2>3, <2>4, <2>5, <1>6
    <3> QED BY <3>1, <2>4, <2>5
  <2>6. CASE m # Main
    <3>1. PICK i \in DOMAIN subs2 : m = subs2[i].mod BY <2>6
    <3>2. i \in 1..Len(subs2) BY <1>8, LenProperties
    <3> DEFINE h == PlaceIn(subs2, m)
    <3>3. h \in 1..Len(subs2) /\ subs2[h].mod = m BY <3>1, <3>2, <1>8, FirstPlace
    <3> HIDE DEF h
    <3>4. h \in 1..N /\ subs[h].mod = m /\ subs2[h].offset = OffsetOf(h) BY <3>3, <1>8
    <3>5. table[g + OffsetOf(h)] = <<m, g>> BY <3>4, <2>3, <2>4, <1>6
    <3> QED BY <3>4, <3>5, <2>4, <2>6 DEF h
  <2> QED BY <2>5, <2>6
<1>14. GlobalsAreReached' BY <1>9, <1>10, <1>12, <1>13, ReachedMeansNext
<1> QED BY <1>11, <1>14 DEF ProgramInv

(* The definitions that linking modules adds.                                *)
LEMMA Linking ==
    ASSUME TypeOK, ProgramType, NEW mods \in Lists, LinkModules(mods)
    PROVE  /\ UNCHANGED <<functions, process>>
           /\ \A p \in Processes : ~process[p].started
           /\ program' \in [defs : Seq(Definition), submodules : Seq(Submodule)]
           /\ program'.submodules =
                 program.submodules \o [i \in DOMAIN mods |-> [mod |-> mods[i], offset |-> 0]]
           /\ \E new \in Seq(Definition) :
                 /\ program'.defs = program.defs \o new
                 /\ \A i \in DOMAIN mods : \A f \in 1..Len(functions[mods[i]]) :
                       LET name == Name(<<mods[i], f>>)
                       IN  FirstNamed(name) # 0 =>
                               \E k \in 1..Len(new) : new[k].decl = UndefinedFunctions[FirstNamed(name)]
<1> DEFINE lists == [i \in DOMAIN mods |-> FunctionList(mods[i])]
           all == FlattenSeq(lists)
           chosen == [i \in DOMAIN all |-> IF FirstNamed(Name(all[i])) # 0 THEN <<all[i]>> ELSE <<>>]
           found == FlattenSeq(chosen)
           new == [i \in DOMAIN found |-> [decl |-> UndefinedFunctions[FirstNamed(Name(found[i]))], to |-> found[i]]]
           linked == [i \in DOMAIN mods |-> [mod |-> mods[i], offset |-> 0]]
<1>1. PICK n \in 1..bound.linked : mods \in [1..n -> bound.modules \ {Main}] BY DEF Lists
<1>2. bound.modules \subseteq Modules BY DEF TypeOK, BoundKinds
<1>3. n \in Nat /\ DOMAIN mods = 1..n /\ \A i \in 1..n : mods[i] \in Modules BY <1>1, <1>2
<1>4. /\ program' = [defs |-> program.defs \o new, submodules |-> program.submodules \o linked]
      /\ UNCHANGED <<functions, process>>
      /\ \A p \in Processes : ~process[p].started
  BY DEF LinkModules, Where
<1> HIDE DEF new
<1>5. linked \in Seq(Submodule)
  <2> DEFINE e(i) == [mod |-> mods[i], offset |-> 0]
  <2>1. linked = [i \in 1..n |-> e(i)] BY <1>3
  <2>2. \A i \in 1..n : e(i) \in Submodule BY <1>3 DEF Submodule
  <2> HIDE DEF e, linked
  <2> QED BY <1>3, <2>1, <2>2
<1>6. \A i \in 1..n : lists[i] = FunctionList(mods[i]) /\ lists[i] \in Seq(Numbered) BY <1>3, FunctionLists
<1>7. lists \in [1..n -> Seq(Numbered)] BY <1>3, <1>6
<1> HIDE DEF lists, linked
<1>8. n \in Nat BY <1>3
<1>9. all \in Seq(Numbered) /\ \A x : x \in ToSet(all) <=> \E i \in 1..n : x \in ToSet(lists[i])
  BY <1>7, <1>8, Flattened, Zenon
<1> HIDE DEF all
<1> DEFINE N == Len(all)
<1>10. /\ N \in Nat /\ DOMAIN all = 1..N /\ ToSet(all) = {all[i] : i \in 1..N}
       /\ \A i \in 1..N : all[i] \in Numbered
  BY <1>9, LenProperties, Contents
<1> HIDE DEF N
<1>11. chosen = [i \in 1..N |-> IF FirstNamed(Name(all[i])) # 0 THEN <<all[i]>> ELSE <<>>] BY <1>10
<1> HIDE DEF chosen
<1>12. chosen \in [1..N -> Seq(Numbered)] BY <1>10, <1>11
<1>13. \A i \in 1..N : ToSet(chosen[i]) = IF FirstNamed(Name(all[i])) # 0 THEN {all[i]} ELSE {} BY <1>11, Singles
<1>14. N \in Nat BY <1>10
<1>15. found \in Seq(Numbered) /\ \A x : x \in ToSet(found) <=> \E i \in 1..N : x \in ToSet(chosen[i])
  BY <1>12, <1>14, Flattened, Zenon
<1> HIDE DEF found
<1>16. ASSUME NEW x PROVE x \in ToSet(found) <=> x \in ToSet(all) /\ FirstNamed(Name(x)) # 0
  <2>1. x \in ToSet(all) <=> \E i \in 1..N : x = all[i] BY <1>10
  <2>2. \A i \in 1..N : x \in ToSet(chosen[i]) <=> x = all[i] /\ FirstNamed(Name(x)) # 0 BY <1>13
  <2> QED BY <2>1, <2>2, <1>15
<1> DEFINE K == Len(found)
           e(i) == [decl |-> UndefinedFunctions[FirstNamed(Name(found[i]))], to |-> found[i]]
<1>17. /\ K \in Nat /\ DOMAIN found = 1..K /\ ToSet(found) = {found[i] : i \in 1..K}
       /\ \A i \in 1..K : found[i] \in Numbered
  BY <1>15, LenProperties, Contents
<1>18. new = [i \in 1..K |-> e(i)] BY <1>17 DEF new
<1> HIDE DEF K
<1>19. \A i \in 1..K : e(i) \in Definition
  <2> SUFFICES ASSUME NEW i \in 1..K PROVE e(i) \in Definition OBVIOUS
  <2>1. found[i] \in ToSet(found) /\ found[i] \in Numbered BY <1>17
  <2>2. FirstNamed(Name(found[i])) # 0 BY <2>1, <1>16
  <2>3. UndefinedFunctions[FirstNamed(Name(found[i]))] \in Numbered BY <2>2, FirstWithName
  <2> QED BY <2>1, <2>3 DEF Definition
<1> HIDE DEF e
<1>20. new \in Seq(Definition) /\ Len(new) = K /\ \A i \in 1..K : new[i] = e(i) BY <1>17, <1>18, <1>19
<1>21. program' \in [defs : Seq(Definition), submodules : Seq(Submodule)]
  <2>1. program.defs \in Seq(Definition) /\ program.submodules \in Seq(Submodule) BY DEF ProgramType
  <2>2. program.defs \o new \in Seq(Definition) BY <2>1, <1>20, ConcatProperties
  <2>3. program.submodules \o linked \in Seq(Submodule) BY <2>1, <1>5, ConcatProperties
  <2> QED BY <2>2, <2>3, <1>4
<1>22. ASSUME NEW i \in DOMAIN mods, NEW f \in 1..Len(functions[mods[i]]), FirstNamed(Name(<<mods[i], f>>)) # 0
       PROVE  \E k \in 1..Len(new) : new[k].decl = UndefinedFunctions[FirstNamed(Name(<<mods[i], f>>))]
  <2> DEFINE x == <<mods[i], f>>
  <2>1. i \in 1..n /\ mods[i] \in Modules BY <1>3
  <2>2. x \in ToSet(lists[i])
    <3>1. ToSet(FunctionList(mods[i])) = {<<mods[i], g>> : g \in 1..Len(functions[mods[i]])} BY <2>1, FunctionLists
    <3> QED BY <3>1, <2>1, <1>6
  <2> HIDE DEF x
  <2>3. x \in ToSet(found) BY <2>1, <2>2, <1>9, <1>16, <1>22 DEF x
  <2>4. PICK k \in 1..K : found[k] = x BY <2>3, <1>17
  <2>5. new[k].decl = UndefinedFunctions[FirstNamed(Name(x))] BY <2>4, <1>20 DEF e
  <2> QED BY <2>4, <2>5, <1>20 DEF x
<1> QED BY <1>4, <1>20, <1>21, <1>22 DEF linked

LEMMA LinkStep ==
    ASSUME TypeOK, ProgramInv, NEW mods \in Lists, LinkModules(mods)
    PROVE  ProgramInv'
<1>1. /\ UNCHANGED <<functions, process>>
      /\ \A p \in Processes : ~process[p].started
      /\ program' \in [defs : Seq(Definition), submodules : Seq(Submodule)]
  BY Linking DEF ProgramInv
<1>2. ProgramType' BY <1>1 DEF ProgramInv, ProgramType
<1>3. GlobalsAreReached' BY <1>1, ReachedMeansNext
<1> QED BY <1>2, <1>3 DEF ProgramInv

LEMMA NativeStep ==
    ASSUME ProgramInv, NEW m \in Linked, NEW fn \in Declarations(m), DefineNativeFunction(fn)
    PROVE  /\ ProgramInv'
           /\ \E new \in Seq(Definition) : program'.defs = program.defs \o new
<1> DEFINE def == [decl |-> fn, to |-> Native]
           defs == program.defs
<1>1. defs \in Seq(Definition) BY DEF ProgramInv, ProgramType
<1>2. m \in Modules /\ Len(functions[m]) \in Nat
  <2>1. m \in Modules BY LinkedModules DEF ProgramInv
  <2> QED BY <2>1, LenProperties DEF ProgramInv, ProgramType
<1>3. fn \in Numbered BY <1>2 DEF Declarations, Numbered
<1>4. def \in Definition BY <1>3 DEF Definition
<1>5. program' = [program EXCEPT !.defs = Append(defs, def)] /\ UNCHANGED <<functions, process>>
  BY DEF DefineNativeFunction
<1> HIDE DEF def
<1>6. <<def>> \in Seq(Definition) /\ Append(defs, def) = defs \o <<def>> BY <1>1, <1>4
<1>7. Append(defs, def) \in Seq(Definition) BY <1>1, <1>4
<1>8. program'.defs = Append(defs, def) /\ program'.submodules = program.submodules
  BY <1>5 DEF ProgramInv, ProgramType
<1>9. program' \in [defs : Seq(Definition), submodules : Seq(Submodule)]
  BY <1>5, <1>7 DEF ProgramInv, ProgramType
<1>10. ProgramType' BY <1>5, <1>9 DEF ProgramInv, ProgramType
<1>11. GlobalsAreReached' BY <1>5, <1>8, ReachedMeans, ReachedMeansNext DEF ProgramInv, AllReached
<1> QED BY <1>6, <1>8, <1>10, <1>11 DEF ProgramInv

LEMMA FunctionStep ==
    ASSUME ProgramInv, UNCHANGED <<program, process>>,
           functions' \in [Modules -> Seq([name : Names, defined : BOOLEAN])]
    PROVE  ProgramInv'
<1>1. ProgramType' BY DEF ProgramInv, ProgramType
<1>2. GlobalsAreReached' BY ReachedMeans, ReachedMeansNext DEF ProgramInv, AllReached
<1> QED BY <1>1, <1>2 DEF ProgramInv

LEMMA AddFunctionStep ==
    ASSUME ProgramInv, NEW t, NEW m \in Modules, NEW name \in Names, AddFunction(t, m, name)
    PROVE  ProgramInv'
<1> DEFINE F == [name : Names, defined : BOOLEAN]
           fn == Function(name)
           new == Append(functions[m], fn)
<1>1. functions \in [Modules -> Seq(F)] BY DEF ProgramInv, ProgramType
<1>2. fn \in F BY DEF Function
<1>3. functions' = [functions EXCEPT ![m] = new] /\ UNCHANGED <<program, process>> BY DEF AddFunction
<1> HIDE DEF F, fn
<1>4. new \in Seq(F) BY <1>1, <1>2
<1> HIDE DEF new
<1>5. functions' \in [Modules -> Seq(F)] BY <1>1, <1>3, <1>4
<1> QED BY <1>3, <1>5, FunctionStep DEF F

LEMMA DefineFunctionStep ==
    ASSUME ProgramInv, NEW m \in Modules, NEW f \in 1..Len(functions[m]), DefineFunction(m, f)
    PROVE  ProgramInv'
<1> DEFINE F == [name : Names, defined : BOOLEAN]
           fn == [functions[m][f] EXCEPT !.defined = TRUE]
           new == [functions[m] EXCEPT ![f] = fn]
<1>1. functions \in [Modules -> Seq(F)] BY DEF ProgramInv, ProgramType
<1>2. functions[m][f] \in F BY <1>1, LenProperties
<1>3. fn \in F BY <1>2
<1>4. functions' = [functions EXCEPT ![m] = new] /\ UNCHANGED <<program, process>> BY DEF DefineFunction
<1> HIDE DEF F, fn
<1>5. new \in Seq(F) BY <1>1, <1>3, ExceptSeq
<1> HIDE DEF new
<1>6. functions' \in [Modules -> Seq(F)] BY <1>1, <1>4, <1>5
<1> QED BY <1>4, <1>6, FunctionStep DEF F

LEMMA InitProgram == Init => ProgramInv
<1> SUFFICES ASSUME Init PROVE ProgramInv OBVIOUS
<1>1. <<>> \in Seq([name : Names, defined : BOOLEAN]) /\ <<>> \in Seq(Definition) /\ <<>> \in Seq(Submodule)
  BY EmptySeq
<1>2. \A p \in Processes : process[p] = [started |-> FALSE] BY DEF Init
<1>3. ProgramType BY <1>1 DEF Init, ProgramType
<1>4. GlobalsAreReached BY <1>2 DEF GlobalsAreReached
<1> QED BY <1>3, <1>4 DEF ProgramInv

LEMMA NextProgram == ASSUME TypeOK, ProgramInv, [Next]_vars PROVE ProgramInv'
<1>1. ASSUME UNCHANGED <<functions, program, process>> PROVE ProgramInv'
  BY <1>1, FunctionStep DEF ProgramInv, ProgramType
<1>2. CASE Next
  <2>1. bound.threads \subseteq Threads /\ bound.modules \subseteq Modules /\ bound.processes \subseteq Processes
    BY DEF TypeOK, BoundKinds
  <2>2. ASSUME NEW t \in bound.threads, NEW m \in bound.modules, NEW name \in Names, AddFunction(t, m, name)
        PROVE  ProgramInv'
    BY <2>1, <2>2, AddFunctionStep
  <2>3. ASSUME NEW m \in bound.modules, NEW f \in 1..Len(functions[m]), DefineFunction(m, f)
        PROVE  ProgramInv'
    BY <2>1, <2>3, DefineFunctionStep
  <2>4. ASSUME NEW mods \in Lists, LinkModules(mods) PROVE ProgramInv' BY <2>4, LinkStep
  <2>5. ASSUME NEW m \in Linked, NEW fn \in Declarations(m), DefineNativeFunction(fn) PROVE ProgramInv'
    BY <2>5, NativeStep
  <2>6. ASSUME NEW p \in bound.processes, Start(p) PROVE ProgramInv' BY <2>1, <2>6, StartStep
  <2> QED
    BY <1>1, <1>2, <2>2, <2>3, <2>4, <2>5, <2>6
    DEF Next, AddGlobal, LeaveUndefined, DefineSize, DefineMemory, LookForLiteral, LookAtGlobal, AddLiteral, FindExtern
<1>3. CASE UNCHANGED vars BY <1>1, <1>3 DEF vars
<1> QED BY <1>2, <1>3

LEMMA ProgramInvariant == Spec => []ProgramInv
<1>1. Inv /\ ProgramInv /\ [Next]_vars => ProgramInv' BY NextProgram DEF Inv
<1> QED BY <1>1, InitProgram, Invariant, PTL DEF Spec

(* The process that was started last finds all globals of all modules that   *)
(* are linked: start lays out the table and the offsets from the same list,  *)
(* a module that is linked twice has the offset of its first place, and no   *)
(* module is linked once a process has started.                              *)
THEOREM GlobalsReached == Spec => []GlobalsAreReached
BY ProgramInvariant, PTL DEF ProgramInv

-----------------------------------------------------------------------------
(* Steps and definitions *)

DefinitionsAreFound == \A fn : FindDefinition(fn) = DefinitionIn(program.defs, fn)

LEMMA FoundDefinitions == DefinitionsAreFound
BY DEF DefinitionsAreFound, FindDefinition, DefinitionIn, IndexIn

LEMMA FoundNext == \A fn : FindDefinition(fn)' = DefinitionIn(program'.defs, fn)
<1>1. DefinitionsAreFound' BY FoundDefinitions, PTL
<1> QED BY <1>1 DEF DefinitionsAreFound

LEMMA DefinitionsAreAdded ==
    ASSUME TypeOK, ProgramInv, [Next]_vars
    PROVE  program'.defs = program.defs \/ \E new \in Seq(Definition) : program'.defs = program.defs \o new
<1>1. CASE Next
  <2>1. ASSUME NEW mods \in Lists, LinkModules(mods)
        PROVE  \E new \in Seq(Definition) : program'.defs = program.defs \o new
    BY <2>1, Linking DEF ProgramInv
  <2>2. ASSUME NEW m \in Linked, NEW fn \in Declarations(m), DefineNativeFunction(fn)
        PROVE  \E new \in Seq(Definition) : program'.defs = program.defs \o new
    BY <2>2, NativeStep
  <2>3. ASSUME NEW p \in bound.processes, Start(p) PROVE program'.defs = program.defs
    BY <2>3 DEF Start, ProgramInv, ProgramType
  <2> QED
    BY <1>1, <2>1, <2>2, <2>3
    DEF Next, AddGlobal, LeaveUndefined, DefineSize, DefineMemory, LookForLiteral, LookAtGlobal, AddLiteral,
        AddFunction, FindExtern, DefineFunction
<1>2. CASE UNCHANGED vars BY <1>2 DEF vars
<1> QED BY <1>1, <1>2

(* No step takes a definition away or replaces it: definitions are only      *)
(* added behind those there are, and the first of a function is taken.       *)
THEOREM DefinitionsAreKept == Spec => DefinitionsStay
<1> DEFINE A == \A m \in Linked : \A fn \in Declarations(m) :
                   FindDefinition(fn) # NoDefinition => FindDefinition(fn)' = FindDefinition(fn)
<1>1. ASSUME TypeOK, ProgramInv, [Next]_vars PROVE A
  <2> SUFFICES ASSUME NEW fn, FindDefinition(fn) # NoDefinition PROVE FindDefinition(fn)' = FindDefinition(fn)
    OBVIOUS
  <2>1. /\ FindDefinition(fn) = DefinitionIn(program.defs, fn)
        /\ FindDefinition(fn)' = DefinitionIn(program'.defs, fn)
    BY FoundDefinitions, FoundNext DEF DefinitionsAreFound
  <2>2. program.defs \in Seq(Definition) BY <1>1 DEF ProgramInv, ProgramType
  <2>3. CASE program'.defs = program.defs BY <2>1, <2>3
  <2>4. ASSUME NEW new \in Seq(Definition), program'.defs = program.defs \o new
        PROVE  FindDefinition(fn)' = FindDefinition(fn)
    BY <2>1, <2>2, <2>4, DefinitionsAddedLater
  <2> QED BY <1>1, <2>3, <2>4, DefinitionsAreAdded
<1>2. TypeOK /\ ProgramInv /\ [Next]_vars => [A]_vars BY <1>1
<1>3. Inv => TypeOK BY DEF Inv
<1> QED BY <1>2, <1>3, Invariant, ProgramInvariant, PTL DEF Spec, DefinitionsStay

(* When a module is linked that has a function of the name of one without a  *)
(* definition, the first such function is found by the name, gets one, and   *)
(* a definition is never nothing.                                            *)
THEOREM NamesGetDefinitions == Spec => NamesAreResolved
<1> DEFINE Linkable(fn) == \E i \in DOMAIN program'.submodules \ DOMAIN program.submodules :
                               \E f \in DOMAIN functions[program'.submodules[i].mod] :
                                   functions[program'.submodules[i].mod][f].name = Name(fn)
           Resolved(fn) == \E n \in Linked : \E other \in Declarations(n) :
                               Name(other) = Name(fn) /\ FindDefinition(other)' # NoDefinition
           A == program.submodules # program'.submodules /\ UNCHANGED process =>
                    \A m \in Linked : \A fn \in Declarations(m) : Linkable(fn) => Resolved(fn)
<1>1. ASSUME TypeOK, ProgramInv, NEW mods \in Lists, LinkModules(mods),
             NEW m \in Linked, NEW fn \in Declarations(m), Linkable(fn)
      PROVE  Resolved(fn)
  <2> DEFINE name == Name(fn)
             linked == [i \in DOMAIN mods |-> [mod |-> mods[i], offset |-> 0]]
  <2>1. ProgramType BY <1>1 DEF ProgramInv
  <2>2. PICK n \in 1..bound.linked : mods \in [1..n -> bound.modules \ {Main}] BY DEF Lists
  <2>3. n \in Nat /\ DOMAIN mods = 1..n /\ \A i \in 1..n : mods[i] \in Modules BY <1>1, <2>2 DEF TypeOK, BoundKinds
  <2>4. linked \in Seq(Submodule) /\ Len(linked) = n /\ \A i \in 1..n : linked[i].mod = mods[i]
    <3> DEFINE e(i) == [mod |-> mods[i], offset |-> 0]
    <3>1. linked = [i \in 1..n |-> e(i)] BY <2>3
    <3>2. \A i \in 1..n : e(i) \in Submodule /\ e(i).mod = mods[i] BY <2>3 DEF Submodule
    <3> HIDE DEF e, linked
    <3> QED BY <2>3, <3>1, <3>2
  <2>5. program'.submodules = program.submodules \o linked BY <1>1, <2>1, Linking
  <2> HIDE DEF linked
  <2>6. PICK new \in Seq(Definition) :
            /\ program'.defs = program.defs \o new
            /\ \A i \in DOMAIN mods : \A f \in 1..Len(functions[mods[i]]) :
                  LET nm == Name(<<mods[i], f>>)
                  IN  FirstNamed(nm) # 0 => \E k \in 1..Len(new) : new[k].decl = UndefinedFunctions[FirstNamed(nm)]
    BY <1>1, <2>1, Linking
  <2>7. PICK i \in DOMAIN program'.submodules \ DOMAIN program.submodules :
            \E f \in DOMAIN functions[program'.submodules[i].mod] :
                functions[program'.submodules[i].mod][f].name = name
    BY <1>1
  <2> DEFINE L == Len(program.submodules)
             s == program'.submodules
  <2>8. /\ s \in Seq(Submodule) /\ Len(s) = L + n /\ L \in Nat /\ DOMAIN program.submodules = 1..L
        /\ \A j \in 1..L + n : s[j] = IF j <= L THEN program.submodules[j] ELSE linked[j - L]
    <3> DEFINE r == program.submodules
    <3>1. r \in Seq(Submodule) /\ linked \in Seq(Submodule) /\ s = r \o linked BY <2>1, <2>4, <2>5 DEF ProgramType
    <3>2. L = Len(r) OBVIOUS
    <3> HIDE DEF L, s, r
    <3>3. /\ s \in Seq(Submodule) /\ Len(s) = Len(r) + Len(linked)
          /\ \A j \in 1..Len(r) + Len(linked) : s[j] = IF j <= Len(r) THEN r[j] ELSE linked[j - Len(r)]
      BY <3>1, ConcatProperties
    <3>4. Len(r) \in Nat /\ DOMAIN r = 1..Len(r) BY <3>1, LenProperties
    <3> QED BY <3>2, <3>3, <3>4, <2>4 DEF r
  <2> HIDE DEF L
  <2>9. i \in 1..L + n /\ i \notin 1..L BY <2>7, <2>8, LenProperties
  <2>10. i - L \in 1..n /\ s[i].mod = mods[i - L] BY <2>3, <2>4, <2>8, <2>9
  <2>11. PICK f \in DOMAIN functions[mods[i - L]] : functions[mods[i - L]][f].name = name BY <2>7, <2>10
  <2>12. f \in 1..Len(functions[mods[i - L]]) BY <2>1, <2>3, <2>10, LenProperties DEF ProgramType
  <2>13. Name(<<mods[i - L], f>>) = name BY <2>11 DEF Name
  <2>14. fn \in ToSet(UndefinedFunctions) BY <2>1, Undefined
  <2>15. FirstNamed(name) # 0 BY <2>1, <2>14, FirstWithName
  <2>16. i - L \in DOMAIN mods BY <2>3, <2>10
  <2> HIDE DEF name
  <2>17. \E k \in 1..Len(new) : new[k].decl = UndefinedFunctions[FirstNamed(name)] BY <2>6, <2>12, <2>13, <2>15, <2>16
  <2>18. /\ FirstNamed(name) \in 1..Len(UndefinedFunctions)
         /\ Name(UndefinedFunctions[FirstNamed(name)]) = name
    BY <2>1, <2>15, FirstWithName
  <2>19. UndefinedFunctions[FirstNamed(name)] \in ToSet(UndefinedFunctions) BY <2>1, <2>18, Undefined, Contents
  <2>20. PICK other \in ToSet(UndefinedFunctions) :
             Name(other) = name /\ \E k \in 1..Len(new) : new[k].decl = other
    BY <2>17, <2>18, <2>19
  <2>21. program.defs \in Seq(Definition) BY <2>1 DEF ProgramType
  <2>22. DefinitionIn(program'.defs, other) # NoDefinition
    <3> DEFINE more == program'.defs
    <3>1. /\ more \in Seq(Definition)
          /\ Len(more) = Len(program.defs) + Len(new) /\ Len(program.defs) \in Nat /\ Len(new) \in Nat
          /\ \A k \in 1..Len(program.defs) + Len(new) :
                more[k] = IF k <= Len(program.defs) THEN program.defs[k] ELSE new[k - Len(program.defs)]
      BY <2>6, <2>21, ConcatProperties, LenProperties
    <3>2. PICK k \in 1..Len(new) : new[k].decl = other BY <2>20
    <3> DEFINE h == k + Len(program.defs)
    <3>3. h \in 1..Len(program.defs) + Len(new) /\ ~(h <= Len(program.defs)) /\ h - Len(program.defs) = k
      BY <3>1
    <3> HIDE DEF h, more
    <3>4. h \in 1..Len(more) /\ more[h].decl = other BY <3>1, <3>2, <3>3
    <3> QED BY <3>1, <3>4, DefinitionsAreSome DEF more
  <2>23. FindDefinition(other)' # NoDefinition BY <2>22, FoundNext
  <2>24. \E k \in Linked : other \in Declarations(k) BY <2>1, <2>20, Undefined
  <2> QED BY <2>20, <2>23, <2>24 DEF name
<1> HIDE DEF Linkable, Resolved
<1>2. ASSUME TypeOK, ProgramInv, [Next]_vars PROVE A
  <2> SUFFICES ASSUME program.submodules # program'.submodules, UNCHANGED process,
                      NEW m \in Linked, NEW fn \in Declarations(m), Linkable(fn)
               PROVE  Resolved(fn)
    OBVIOUS
  <2>1. \E mods \in Lists : LinkModules(mods)
    <3>1. ASSUME NEW f, DefineNativeFunction(f) PROVE FALSE
      BY <1>2, <3>1 DEF DefineNativeFunction, ProgramInv, ProgramType
    <3>2. ASSUME NEW p \in Processes, Start(p) PROVE FALSE
      BY <3>2, <1>2 DEF Start, ProgramInv, ProgramType
    <3>3. bound.processes \subseteq Processes BY <1>2 DEF TypeOK, BoundKinds
    <3> QED
      BY <1>2, <3>1, <3>2, <3>3
      DEF Next, AddGlobal, LeaveUndefined, DefineSize, DefineMemory, LookForLiteral, LookAtGlobal, AddLiteral,
          AddFunction, FindExtern, DefineFunction, vars
  <2> QED BY <1>1, <1>2, <2>1
<1>3. TypeOK /\ ProgramInv /\ [Next]_vars => [A]_vars BY <1>2
<1>4. Inv => TypeOK BY DEF Inv
<1> QED BY <1>3, <1>4, Invariant, ProgramInvariant, PTL DEF Spec, NamesAreResolved, Linkable, Resolved
=============================================================================
