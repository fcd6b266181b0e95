---------------------------- MODULE MemoryProofs ----------------------------
(***************************************************************************)
(* Theorems about Memory, for every value of its constants.                *)
(***************************************************************************)
EXTENDS Memory, SequenceTheorems, TLAPS

-----------------------------------------------------------------------------
(* Arithmetic of generations *)

(* A natural number from its quotient and remainder.                         *)
LEMMA DivMod ==
    ASSUME NEW x \in Nat, NEW n \in Nat \ {0}
    PROVE  x = n * (x \div n) + (x % n)
OBVIOUS

(* The remainder is determined by any such decomposition.                    *)
LEMMA ModUnique ==
    ASSUME NEW x \in Nat, NEW n \in Nat \ {0}, NEW q \in Int, NEW r \in 0..n-1, x = n * q + r
    PROVE  x % n = r
<1> DEFINE p == x \div n
           s == x % n
<1>1. p \in Int /\ s \in 0..n-1 OBVIOUS
<1>2. n * p + s = n * q + r BY DivMod
<1> HIDE DEF p, s
<1>3. n * p \in Int /\ n * q \in Int BY <1>1
<1>4. CASE p > q
  <2>1. n * p >= n * (q + 1) BY <1>4, <1>1
  <2>2. n * (q + 1) = n * q + n BY <1>1
  <2> QED BY <2>1, <2>2, <1>1, <1>2, <1>3
<1>5. CASE q > p
  <2>1. n * q >= n * (p + 1) BY <1>5, <1>1
  <2>2. n * (p + 1) = n * p + n BY <1>1
  <2> QED BY <2>1, <2>2, <1>1, <1>2, <1>3
<1>6. CASE p = q BY <1>6, <1>1, <1>2, <1>3 DEF s
<1> QED BY <1>4, <1>5, <1>6, <1>1

(* Two different numbers with the same remainder are at least n apart.       *)
LEMMA CongruentApart ==
    ASSUME NEW a \in Nat, NEW b \in Nat, NEW n \in Nat \ {0}, a % n = b % n, a > b
    PROVE  a >= b + n
<1> DEFINE q == a \div n
           r == b \div n
<1>1. a = n * q + (a % n) /\ b = n * r + (b % n) BY DivMod
<1>2. q \in Int /\ r \in Int /\ a % n \in Int OBVIOUS
<1> HIDE DEF q, r
<1>3. n * q \in Int /\ n * r \in Int BY <1>2
<1>4. n * q > n * r BY <1>1, <1>2, <1>3
<1>5. q >= r + 1 BY <1>2, <1>4
<1>6. n * q >= n * (r + 1) BY <1>5, <1>2
<1>7. n * (r + 1) = n * r + n BY <1>2
<1> QED BY <1>1, <1>2, <1>3, <1>6, <1>7

(* Counting on preserves that two remainders agree.                          *)
LEMMA CongruentSuccessor ==
    ASSUME NEW a \in Nat, NEW b \in Nat, NEW n \in Nat \ {0}, a % n = b % n
    PROVE  (a + 1) % n = (b + 1) % n
<1> DEFINE q == a \div n
           p == b \div n
           r == a % n
<1>1. a = n * q + r /\ b = n * p + r BY DivMod
<1>2. q \in Int /\ p \in Int /\ r \in 0..n-1 OBVIOUS
<1> HIDE DEF q, p, r
<1>3. n * q \in Int /\ n * p \in Int BY <1>2
<1>4. CASE r + 1 < n
  <2> DEFINE t == r + 1
  <2>1. t \in 0..n-1 /\ a + 1 \in Nat /\ b + 1 \in Nat BY <1>2, <1>4
  <2>2. a + 1 = n * q + t /\ b + 1 = n * p + t BY <1>1, <1>2, <1>3
  <2> HIDE DEF t
  <2>3. (a + 1) % n = t BY <2>1, <2>2, <1>2, ModUnique
  <2>4. (b + 1) % n = t BY <2>1, <2>2, <1>2, ModUnique
  <2> QED BY <2>3, <2>4
<1>5. CASE r + 1 = n
  <2>1. a + 1 = n * (q + 1) + 0 /\ b + 1 = n * (p + 1) + 0 BY <1>1, <1>2, <1>3, <1>5
  <2>2. (a + 1) % n = 0 BY <2>1, <1>2, ModUnique
  <2>3. (b + 1) % n = 0 BY <2>1, <1>2, ModUnique
  <2> QED BY <2>2, <2>3
<1> QED BY <1>2, <1>4, <1>5

(* The wrap of the counter does not show in the bits that an address keeps.  *)
LEMMA WrapKeepsLowBits ==
    ASSUME NEW c \in Nat, NEW G \in Nat \ {0}, NEW A \in Nat \ {0}, G % A = 0, c < G
    PROVE  ((c + 1) % G) % A = (c + 1) % A
<1>1. CASE c + 1 < G
  <2>1. c + 1 = G * 0 + (c + 1) OBVIOUS
  <2>2. (c + 1) % G = c + 1 BY <2>1, <1>1, ModUnique
  <2> QED BY <2>2
<1>2. CASE c + 1 = G
  <2>1. (c + 1) % G = 0 BY <1>2
  <2>2. 0 % A = 0 OBVIOUS
  <2> QED BY <2>1, <2>2, <1>2
<1> QED BY <1>1, <1>2

(* Taking the low bits twice is taking them once.                            *)
LEMMA LowBitsOfLowBits ==
    ASSUME NEW x \in Nat, NEW n \in Nat \ {0}
    PROVE  /\ x % n \in 0..n - 1
           /\ x % n <= x
           /\ (x % n) % n = x % n
<1>1. x % n \in 0..n - 1 /\ x % n <= x OBVIOUS
<1> DEFINE y == x % n
<1>2. y \in Nat /\ y \in 0..n - 1 BY <1>1
<1> HIDE DEF y
<1>3. y = n * 0 + y BY <1>2
<1>4. y % n = y BY <1>2, <1>3, ModUnique
<1> QED BY <1>1, <1>4 DEF y

-----------------------------------------------------------------------------
(* Types *)

(* The capacities that array::reserve may leave are numbers.                 *)
LEMMA ReserveType ==
    ASSUME capacity \in Nat, NEW n \in Nat, NEW c \in Reserve(n)
    PROVE  c \in Nat
<1>1. PageEntries \in Nat \ {0} /\ SparePages \subseteq Nat BY MemoryAssumption DEF MemoryAssumption
<1>2. CASE n <= capacity BY <1>2 DEF Reserve
<1>3. CASE ~(n <= capacity)
  <2>1. PICK s \in SparePages : c = RoundToPages(Larger(2 * capacity, n)) + s * PageEntries
        BY <1>3 DEF Reserve
  <2> DEFINE m == Larger(2 * capacity, n)
             d == (m + PageEntries - 1) \div PageEntries
  <2>2. m \in Nat BY DEF Larger
  <2> HIDE DEF m
  <2>3. m + PageEntries - 1 \in Nat BY <1>1, <2>2
  <2>4. d \in Nat BY <2>3, <1>1
  <2> HIDE DEF d
  <2>5. d * PageEntries \in Nat /\ s * PageEntries \in Nat BY <1>1, <2>1, <2>4
  <2>6. c = d * PageEntries + s * PageEntries BY <2>1 DEF d, m, RoundToPages
  <2> QED BY <2>5, <2>6
<1> QED BY <1>2, <1>3

(* A new entry is an entry.                                                  *)
LEMMA NewEntryType ==
    ASSUME epoch \in Nat, NEW src \in Sources, NEW status \in Statuses, NEW slot \in Nat,
           NEW gen \in 0..Generations - 1, NEW size \in Nat
    PROVE  NewEntry(src, status, slot, gen, size) \in Entries
BY DEF NewEntry, Entries, Blocks, Sources, Statuses, Splits

(* Marking entries as freed changes their status only.                       *)
LEMMA MarkFreedShape ==
    ASSUME table \in Seq(Entries), NEW slots
    PROVE  /\ MarkFreed(slots) \in Seq(Entries)
           /\ Len(MarkFreed(slots)) = Len(table)
           /\ \A i \in 1..Len(table) :
                /\ MarkFreed(slots)[i] = IF i \in slots THEN [table[i] EXCEPT !.status = "freed"]
                                                        ELSE table[i]
                /\ MarkFreed(slots)[i] \in Entries
<1> DEFINE e(i) == IF i \in slots THEN [table[i] EXCEPT !.status = "freed"] ELSE table[i]
<1>1. Len(table) \in Nat OBVIOUS
<1>2. ASSUME NEW i \in 1..Len(table) PROVE e(i) \in Entries
  <2>1. table[i] \in Entries BY <1>1
  <2>2. [table[i] EXCEPT !.status = "freed"] \in Entries BY <2>1 DEF Entries, Statuses
  <2> QED BY <2>1, <2>2
<1>3. MarkFreed(slots) = [i \in 1..Len(table) |-> e(i)] BY DEF MarkFreed
<1> HIDE DEF e
<1>4. MarkFreed(slots) \in Seq(Entries) /\ Len(MarkFreed(slots)) = Len(table)
      BY <1>1, <1>2, <1>3
<1> QED BY <1>2, <1>3, <1>4 DEF e

(* Trimming the table keeps the types.                                       *)
LEMMA RemoveFreedType ==
    ASSUME TypeOK, NEW t \in Seq(Entries), RemoveFreed(t)
    PROVE  /\ table' \in Seq(Entries)
           /\ curGen' \in 0..Generations - 1
           /\ epoch' \in Nat
           /\ retired' \subseteq Retired
<1>a. curGen \in 0..Generations - 1 /\ epoch \in Nat /\ retired \subseteq Retired BY DEF TypeOK
<1>b. Len(t) \in Nat OBVIOUS
<1>0. curGen \in 0..Generations - 1 /\ epoch \in Nat /\ retired \subseteq Retired /\ Len(t) \in Nat
      BY <1>a, <1>b
<1>1. PICK n \in 0..Len(t) :
        /\ table' = SubSeq(t, 1, n)
        /\ retired' = retired \cup {Retire(t, i) : i \in n + 1..Len(t)}
        /\ IF n = Len(t)
           THEN UNCHANGED <<curGen, epoch>>
           ELSE /\ epoch' = epoch + 1
                /\ curGen' = (curGen + 1) % Generations
      BY DEF RemoveFreed, NextGeneration
<1>2. table' \in Seq(Entries) BY <1>0, <1>1, SubSeqProperties
<1>3. curGen' \in 0..Generations - 1 /\ epoch' \in Nat
      BY <1>0, <1>1, MemoryAssumption DEF MemoryAssumption
<1>4. ASSUME NEW i \in n + 1..Len(t) PROVE Retire(t, i) \in Retired
  <2>1. i \in 1..Len(t) /\ i \in Nat BY <1>0
  <2>2. t[i] \in Entries BY <2>1
  <2>3. t[i].gen \in Nat /\ t[i].born \in Nat BY <2>2 DEF Entries
  <2>4. t[i].gen % AddrGens \in 0..AddrGens - 1
        BY <2>3, LowBitsOfLowBits, MemoryAssumption DEF MemoryAssumption
  <2>5. Kind(i, t[i]) \in {"fiber", "piece", "plain"} BY DEF Kind
  <2> QED BY <2>1, <2>3, <2>4, <2>5 DEF Retire, Retired
<1> QED BY <1>0, <1>1, <1>2, <1>3, <1>4

(* Freeing heap blocks keeps the types.                                      *)
LEMMA FreeNativeType ==
    ASSUME TypeOK, NEW slots, FreeNative(slots)
    PROVE  heapLive' \subseteq Blocks /\ fault' \in {"none", "assertion", "bad free"}
BY DEF FreeNative, TypeOK

(* Appending an entry keeps the types.                                       *)
LEMMA PushType ==
    ASSUME TypeOK, NEW e \in Entries, Push(e)
    PROVE  table' \in Seq(Entries) /\ capacity' \in Nat
<1>1. table \in Seq(Entries) /\ capacity \in Nat BY DEF TypeOK
<1>2. Len(table) + 1 \in Nat BY <1>1
<1> QED BY <1>1, <1>2, ReserveType DEF Push

(* The entries of the globals are entries.                                   *)
LEMMA GlobalEntryType ==
    ASSUME epoch = 0, NEW i \in 1..Len(Globals)
    PROVE  GlobalEntry(i) \in Entries
<1>1. LocalSize \in Nat /\ 0 \in 0..Generations - 1 BY MemoryAssumption DEF MemoryAssumption
<1>2. i \in Nat BY MemoryAssumption DEF MemoryAssumption
<1> QED BY <1>1, <1>2, NewEntryType DEF GlobalEntry, Sources, Statuses

LEMMA InitType == Init => TypeOK
<1> SUFFICES ASSUME Init PROVE TypeOK
    OBVIOUS
<1> USE DEF Init
<1>1. table \in Seq(Entries)
  <2> DEFINE e(i) == GlobalEntry(i)
  <2>1. Len(Globals) \in Nat BY MemoryAssumption DEF MemoryAssumption
  <2>2. \A i \in 1..Len(Globals) : e(i) \in Entries BY GlobalEntryType
  <2>3. table = [i \in 1..Len(Globals) |-> e(i)] OBVIOUS
  <2> HIDE DEF e
  <2> QED BY <2>1, <2>2, <2>3
<1>2. capacity \in Nat
  <2> DEFINE m == Len(Globals) + PageEntries - 1
  <2>1. PageEntries \in Nat \ {0} /\ Len(Globals) \in Nat BY MemoryAssumption DEF MemoryAssumption
  <2>2. m \in Nat BY <2>1
  <2>3. capacity = (m \div PageEntries) * PageEntries BY DEF RoundToPages
  <2> HIDE DEF m
  <2>4. m \div PageEntries \in Nat BY <2>1, <2>2
  <2> QED BY <2>1, <2>3, <2>4
<1>3. curGen \in 0..Generations - 1 BY MemoryAssumption DEF MemoryAssumption
<1>4. fibers \in [Fibers -> FiberRecords]
  <2>1. Absent \in FiberRecords BY DEF Absent, FiberRecords
  <2> QED BY <2>1
<1>5. calling \in {Idle} \cup [fiber : Fibers, count : LocalCounts] OBVIOUS
<1>6. ended \in BOOLEAN /\ fault \in {"none", "assertion", "bad free"} OBVIOUS
<1>7. heapLive \subseteq Blocks /\ epoch \in Nat /\ retired \subseteq Retired OBVIOUS
<1> HIDE DEF Init
<1> QED BY <1>1, <1>2, <1>3, <1>4, <1>5, <1>6, <1>7 DEF TypeOK

(* What each variable's type says, as separate facts.                        *)
LEMMA Types ==
    ASSUME TypeOK
    PROVE  /\ table \in Seq(Entries)
           /\ Len(table) \in Nat
           /\ \A i \in 1..Len(table) : table[i] \in Entries
           /\ curGen \in 0..Generations - 1
           /\ capacity \in Nat
           /\ fibers \in [Fibers -> FiberRecords]
           /\ calling \in {Idle} \cup [fiber : Fibers, count : LocalCounts]
           /\ ended \in BOOLEAN
           /\ fault \in {"none", "assertion", "bad free"}
           /\ heapLive \subseteq Blocks
           /\ epoch \in Nat
           /\ retired \subseteq Retired
<1>1. table \in Seq(Entries) BY DEF TypeOK
<1>2. Len(table) \in Nat /\ \A i \in 1..Len(table) : table[i] \in Entries BY <1>1
<1> QED BY <1>1, <1>2 DEF TypeOK

(* Pushing a heap entry keeps the types.                                     *)
LEMMA PushHeapType ==
    ASSUME TypeOK, NEW size \in Nat, PushHeap(size)
    PROVE  table' \in Seq(Entries) /\ capacity' \in Nat /\ heapLive' \subseteq Blocks
<1> DEFINE e == NewEntry("heap", "allocated", Len(table) + 1, curGen, size)
<1>1. e \in Entries
  <2>0. Len(table) \in Nat /\ epoch \in Nat /\ curGen \in 0..Generations - 1 BY Types
  <2>1. Len(table) + 1 \in Nat /\ epoch \in Nat /\ curGen \in 0..Generations - 1 BY <2>0
  <2> QED BY <2>1, NewEntryType DEF Sources, Statuses
<1>2. e.blk \in Blocks BY <1>1 DEF Entries
<1>3. Push(e) /\ heapLive' = heapLive \cup {e.blk} BY DEF PushHeap
<1> HIDE DEF e
<1> QED BY <1>1, <1>2, <1>3, PushType, Types

(* An address that resolves names an entry.                                  *)
LEMMA ResolvesToEntry ==
    ASSUME TypeOK, NEW a, Resolves(a)
    PROVE  a.slot \in 1..Len(table) /\ table[a.slot] \in Entries
BY Types DEF Resolves

(* Replacing an entry of the table by another keeps its type.                *)
LEMMA ReplaceType ==
    ASSUME TypeOK, NEW i \in 1..Len(table), NEW e \in Entries
    PROVE  [table EXCEPT ![i] = e] \in Seq(Entries)
BY Types, ExceptSeq

(* Both pieces that a split leaves are entries.                              *)
LEMMA PieceType ==
    ASSUME epoch \in Nat, NEW e \in Entries, NEW offset \in Nat, offset < e.size
    PROVE  TailPiece(e, offset) \in Entries /\ HeadPiece(e, offset) \in Entries
<1>1. e.size - offset \in Nat /\ e.off + offset \in Nat BY DEF Entries
<1>2. TailPiece(e, offset) \in Entries BY <1>1 DEF TailPiece, Entries, Splits
<1>3. HeadPiece(e, offset) \in Entries BY <1>1 DEF HeadPiece, Entries, Splits
<1> QED BY <1>2, <1>3

(* A merged entry is an entry.                                               *)
LEMMA GrownType ==
    ASSUME NEW e1 \in Entries, NEW e2 \in Entries
    PROVE  Grown(e1, e2) \in Entries
<1>1. e1.size + e2.size \in Nat BY DEF Entries
<1> QED BY <1>1 DEF Grown, Entries, Splits

(* Giving a fiber another stack of frames keeps the type of the fibers.      *)
LEMMA FramesType ==
    ASSUME TypeOK, NEW f \in Fibers, NEW fs \in Seq(Frames)
    PROVE  [fibers EXCEPT ![f].frames = fs] \in [Fibers -> FiberRecords]
<1>1. fibers \in [Fibers -> FiberRecords] BY Types
<1>2. [fibers[f] EXCEPT !.frames = fs] \in FiberRecords BY <1>1 DEF FiberRecords
<1> QED BY <1>1, <1>2

(* Every step keeps every variable's type.                                   *)
LEMMA NextType == TypeOK /\ [Next]_vars => TypeOK'
<1> SUFFICES ASSUME TypeOK, [Next]_vars PROVE TypeOK'
    OBVIOUS
<1>1. ASSUME NEW size \in StaticSizes, AddStatic(size) PROVE TypeOK'
  <2>1. Len(table) \in Nat /\ epoch \in Nat /\ curGen \in 0..Generations - 1 BY Types
  <2>2. Len(table) + 1 \in Nat /\ size \in Nat BY <2>1, MemoryAssumption DEF MemoryAssumption
  <2>3. NewEntry("static", "allocated", Len(table) + 1, curGen, size) \in Entries
        BY <2>1, <2>2, NewEntryType DEF Sources, Statuses
  <2>4. table' \in Seq(Entries) /\ capacity' \in Nat BY <1>1, <2>3, PushType DEF AddStatic
  <2> QED BY <1>1, <2>4 DEF AddStatic, TypeOK
<1>2. ASSUME NEW size \in HeapSizes, HeapAlloc(size) PROVE TypeOK'
  <2>1. size \in Nat BY MemoryAssumption DEF MemoryAssumption
  <2>2. table' \in Seq(Entries) /\ capacity' \in Nat /\ heapLive' \subseteq Blocks
        BY <1>2, <2>1, PushHeapType DEF HeapAlloc
  <2> QED BY <1>2, <2>2 DEF HeapAlloc, TypeOK
<1>3. ASSUME NEW a \in Addresses, TransferLocal(a) PROVE TypeOK'
  <2>1. table[a.slot] \in Entries BY <1>3, ResolvesToEntry DEF TransferLocal
  <2>2. table[a.slot].size \in Nat BY <2>1 DEF Entries
  <2>3. table' \in Seq(Entries) /\ capacity' \in Nat /\ heapLive' \subseteq Blocks
        BY <1>3, <2>2, PushHeapType DEF TransferLocal
  <2> QED BY <1>3, <2>3 DEF TransferLocal, TypeOK
<1>4. ASSUME NEW a \in Addresses, HeapFree(a) PROVE TypeOK'
  <2>1. table' \in Seq(Entries) BY <1>4, Types, MarkFreedShape DEF HeapFree
  <2>2. heapLive' \subseteq Blocks /\ fault' \in {"none", "assertion", "bad free"}
        BY <1>4, FreeNativeType DEF HeapFree
  <2> QED BY <1>4, <2>1, <2>2 DEF HeapFree, TypeOK
<1>5. ASSUME NEW a \in Addresses, Poison(a) \/ Unpoison(a) PROVE TypeOK'
  <2>1. a.slot \in 1..Len(table) /\ table[a.slot] \in Entries
        BY <1>5, ResolvesToEntry DEF Poison, Unpoison
  <2>2. /\ [table[a.slot] EXCEPT !.status = "poison"] \in Entries
        /\ [table[a.slot] EXCEPT !.status = "allocated"] \in Entries
        BY <2>1 DEF Entries, Statuses
  <2>3. \/ table' = [table EXCEPT ![a.slot] = [table[a.slot] EXCEPT !.status = "poison"]]
        \/ table' = [table EXCEPT ![a.slot] = [table[a.slot] EXCEPT !.status = "allocated"]]
        BY <1>5 DEF Poison, Unpoison
  <2>4. table' \in Seq(Entries) BY <2>1, <2>2, <2>3, ReplaceType
  <2> QED BY <1>5, <2>4 DEF Poison, Unpoison, TypeOK
<1>6. ASSUME NEW a \in Addresses, NEW offset \in SplitOffsets, NEW moved \in BOOLEAN,
             Split(a, offset, moved)
      PROVE  TypeOK'
  <2> DEFINE e == table[a.slot]
             t == IF moved THEN table ELSE [table EXCEPT ![a.slot] = HeadPiece(e, offset)]
  <2>1. a.slot \in 1..Len(table) /\ e \in Entries BY <1>6, ResolvesToEntry DEF Split
  <2>2. offset \in Nat /\ epoch \in Nat BY Types, MemoryAssumption DEF MemoryAssumption
  <2>3. offset < e.size BY <1>6 DEF Split
  <2>4. TailPiece(e, offset) \in Entries /\ HeadPiece(e, offset) \in Entries
        BY <2>1, <2>2, <2>3, PieceType
  <2>5. t \in Seq(Entries) BY <2>1, <2>4, Types, ReplaceType
  <2>6. table' = Append(t, TailPiece(e, offset)) BY <1>6 DEF Split
  <2> HIDE DEF e, t
  <2>7. table' \in Seq(Entries) BY <2>4, <2>5, <2>6
  <2>8. capacity' \in Nat
    <3>1. capacity' \in Reserve(Len(table) + 1) BY <1>6 DEF Split
    <3>2. Len(table) \in Nat /\ capacity \in Nat BY Types
    <3>3. Len(table) + 1 \in Nat BY <3>2
    <3> QED BY <3>1, <3>2, <3>3, ReserveType
  <2> QED BY <1>6, <2>7, <2>8 DEF Split, TypeOK
<1>7. ASSUME NEW a1 \in Addresses, NEW a2 \in Addresses, Merge(a1, a2) PROVE TypeOK'
  <2> DEFINE e1 == table[a1.slot]
             e2 == table[a2.slot]
             t  == [table EXCEPT ![a1.slot] = Grown(e1, e2)]
             u  == [e2 EXCEPT !.status = "freed"]
  <2>1. /\ a1.slot \in 1..Len(table) /\ e1 \in Entries
        /\ a2.slot \in 1..Len(table) /\ e2 \in Entries
        BY <1>7, ResolvesToEntry DEF Merge
  <2>2. Grown(e1, e2) \in Entries BY <2>1, GrownType
  <2>3. u \in Entries BY <2>1 DEF Entries, Statuses
  <2>4. a1.slot # a2.slot BY <1>7 DEF Merge
  <2>5. table' = [t EXCEPT ![a2.slot] = u]
    <3>0. table \in Seq(Entries) BY Types
    <3>1. t[a2.slot] = e2
      <4> DEFINE g == Grown(e1, e2)
                 i == a1.slot
                 j == a2.slot
      <4>1. i \in 1..Len(table) /\ j \in 1..Len(table) /\ i # j /\ g \in Entries
            BY <2>1, <2>2, <2>4
      <4> HIDE DEF g, i, j
      <4>2. [table EXCEPT ![i] = g][j] = table[j] BY <3>0, <4>1, ExceptSeq
      <4> QED BY <4>2 DEF g, i, j
    <3> QED BY <1>7, <3>1 DEF Merge
  <2>6. t \in Seq(Entries) /\ Len(t) = Len(table)
    <3> HIDE DEF e1, e2
    <3>1. table \in Seq(Entries) BY Types
    <3> QED BY <2>1, <2>2, <3>1, ExceptSeq
  <2> HIDE DEF t, u
  <2>7. table' \in Seq(Entries) BY <2>1, <2>3, <2>5, <2>6, ExceptSeq
  <2> QED BY <1>7, <2>7 DEF Merge, TypeOK
<1>8. ASSUME NEW unreachable \in SUBSET (1..Len(table)), Collect(unreachable) PROVE TypeOK'
  <2>1. table' \in Seq(Entries) BY <1>8, Types, MarkFreedShape DEF Collect
  <2>2. heapLive' \subseteq Blocks /\ fault' \in {"none", "assertion", "bad free"}
        BY <1>8, FreeNativeType DEF Collect
  <2>3. fibers' \in [Fibers -> FiberRecords]
    <3>1. Absent \in FiberRecords BY DEF Absent, FiberRecords
    <3> QED BY <1>8, <3>1, Types DEF Collect, DestroyAll
  <2> QED BY <1>8, <2>1, <2>2, <2>3 DEF Collect, TypeOK
<1>9. ASSUME NEW f \in Fibers, CreateFiber(f) PROVE TypeOK'
  <2>1. Len(table) \in Nat /\ epoch \in Nat BY Types
  <2>2. Len(table) + 1 \in Nat /\ 0 \in 0..Generations - 1
        BY <2>1, MemoryAssumption DEF MemoryAssumption
  <2>3. NewEntry("fiber", "poison", Len(table) + 1, 0, 0) \in Entries
        BY <2>1, <2>2, NewEntryType DEF Sources, Statuses
  <2>4. table' \in Seq(Entries) /\ capacity' \in Nat BY <1>9, <2>3, PushType DEF CreateFiber
  <2>5. [status |-> "live", handle |-> Len(table) + 1, frames |-> <<>>] \in FiberRecords
        BY <2>2 DEF FiberRecords
  <2>6. fibers' \in [Fibers -> FiberRecords] BY <1>9, <2>5, Types DEF CreateFiber
  <2> QED BY <1>9, <2>4, <2>6 DEF CreateFiber, TypeOK
<1>10. ASSUME NEW f \in Fibers, NEW n \in LocalCounts, Call(f, n) PROVE TypeOK'
  BY <1>10 DEF Call, TypeOK
<1>11. ASSUME GrowTable PROVE TypeOK'
  <2>1. Len(table) \in Nat /\ capacity \in Nat BY Types
  <2>2. Len(table) + 1 \in Nat BY <2>1
  <2>3. capacity' \in Nat BY <1>11, <2>1, <2>2, ReserveType DEF GrowTable
  <2> QED BY <1>11, <2>3 DEF GrowTable, TypeOK
<1>12. ASSUME SetupLocals PROVE TypeOK'
  <2> DEFINE f == calling.fiber
             n == calling.count
             gen == curGen % AddrGens
             e(k) == NewEntry("local", "allocated", Len(table) + k, gen, LocalSize)
             new == [k \in 1..n |-> e(k)]
             frame == [first |-> Len(table) + 1, count |-> n, gen |-> gen, born |-> epoch]
  <2>1. f \in Fibers /\ n \in LocalCounts BY <1>12, Types DEF SetupLocals
  <2>2. n \in Nat /\ LocalSize \in Nat BY <2>1, MemoryAssumption DEF MemoryAssumption
  <2>3. Len(table) \in Nat /\ epoch \in Nat /\ curGen \in 0..Generations - 1 BY Types
  <2>4. gen \in 0..AddrGens - 1 /\ gen \in 0..Generations - 1
    <3>1. curGen \in Nat /\ AddrGens \in Nat \ {0} BY <2>3, MemoryAssumption DEF MemoryAssumption
    <3>2. gen \in 0..AddrGens - 1 /\ gen <= curGen BY <3>1, LowBitsOfLowBits
    <3> HIDE DEF gen
    <3> QED BY <2>3, <3>1, <3>2, MemoryAssumption DEF MemoryAssumption
  <2>5. table' = table \o new BY <1>12 DEF SetupLocals
  <2>6. frame \in Frames
    <3>1. Len(table) + 1 \in Nat \ {0} BY <2>3
    <3> QED BY <2>1, <2>3, <2>4, <3>1 DEF Frames
  <2>7. fibers' = [fibers EXCEPT ![f].frames = Append(@, frame)]
        BY <1>12 DEF SetupLocals, FirstLocal
  <2> HIDE DEF gen, n, f, frame
  <2>8. \A k \in 1..n : e(k) \in Entries
    <3>1. TAKE k \in 1..n
    <3>2. Len(table) + k \in Nat BY <2>2, <2>3
    <3> QED BY <2>2, <2>3, <2>4, <3>2, NewEntryType DEF Sources, Statuses
  <2> HIDE DEF e
  <2>9. new \in Seq(Entries) BY <2>2, <2>8
  <2> HIDE DEF new
  <2>10. table' \in Seq(Entries) BY <2>5, <2>9, Types, ConcatProperties
  <2>11. fibers' \in [Fibers -> FiberRecords]
    <3>1. fibers[f].frames \in Seq(Frames) BY <2>1, Types DEF FiberRecords
    <3>2. Append(fibers[f].frames, frame) \in Seq(Frames) BY <2>6, <3>1
    <3> QED BY <2>1, <2>7, <3>2, FramesType
  <2> QED BY <1>12, <2>10, <2>11 DEF SetupLocals, TypeOK
<1>13. ASSUME NEW f \in Fibers, ReturnFree(f) PROVE TypeOK'
  <2> DEFINE locals == FrameLocals(TopFrame(f))
  <2>1. CASE /\ RemoveFreed(MarkFreed(locals))
             /\ fibers' = [fibers EXCEPT ![f].frames = SubSeq(@, 1, Len(@) - 1)]
    <3>1. MarkFreed(locals) \in Seq(Entries) BY Types, MarkFreedShape
    <3>2. /\ table' \in Seq(Entries) /\ curGen' \in 0..Generations - 1
          /\ epoch' \in Nat /\ retired' \subseteq Retired
          BY <2>1, <3>1, RemoveFreedType
    <3>3. fibers[f].frames \in Seq(Frames) BY Types DEF FiberRecords
    <3>4. SubSeq(fibers[f].frames, 1, Len(fibers[f].frames) - 1) \in Seq(Frames)
          BY <1>13, <3>3 DEF ReturnFree
    <3>5. fibers' \in [Fibers -> FiberRecords] BY <2>1, <3>4, FramesType
    <3> QED BY <1>13, <3>2, <3>5 DEF ReturnFree, TypeOK
  <2>2. CASE \E slots : /\ table' = MarkFreed(slots)
                        /\ fibers' = [fibers EXCEPT ![f].status = "panicked"]
                        /\ UNCHANGED <<curGen, epoch, retired>>
    <3>0. PICK slots : table' = MarkFreed(slots) BY <2>2
    <3>1. table' \in Seq(Entries) BY <3>0, Types, MarkFreedShape
    <3>2. fibers' \in [Fibers -> FiberRecords]
      <4>1. [fibers[f] EXCEPT !.status = "panicked"] \in FiberRecords BY Types DEF FiberRecords
      <4> QED BY <2>2, <4>1, Types
    <3> QED BY <1>13, <2>2, <3>1, <3>2 DEF ReturnFree, TypeOK
  <2> QED BY <1>13, <2>1, <2>2 DEF ReturnFree
<1>14. ASSUME NEW f \in Fibers, DestroyFiber(f) PROVE TypeOK'
  <2>1. CASE /\ RemoveFreed(MarkFreed(Cancelled(f)))
             /\ fibers' = [fibers EXCEPT ![f] = Absent]
             /\ UNCHANGED fault
    <3>1. MarkFreed(Cancelled(f)) \in Seq(Entries) BY Types, MarkFreedShape
    <3>2. /\ table' \in Seq(Entries) /\ curGen' \in 0..Generations - 1
          /\ epoch' \in Nat /\ retired' \subseteq Retired
          BY <2>1, <3>1, RemoveFreedType
    <3>3. Absent \in FiberRecords BY DEF Absent, FiberRecords
    <3>4. fibers' \in [Fibers -> FiberRecords] BY <2>1, <3>3, Types
    <3> QED BY <1>14, <2>1, <3>2, <3>4 DEF DestroyFiber, TypeOK
  <2>2. CASE /\ \E slots : table' = MarkFreed(slots)
             /\ fault' \in {"assertion", fault}
             /\ UNCHANGED <<fibers, curGen, epoch, retired>>
    <3>0. PICK slots : table' = MarkFreed(slots) BY <2>2
    <3>1. table' \in Seq(Entries) BY <3>0, Types, MarkFreedShape
    <3>2. fault' \in {"none", "assertion", "bad free"} BY <2>2, Types
    <3> QED BY <1>14, <2>2, <3>1, <3>2 DEF DestroyFiber, TypeOK
  <2> QED BY <1>14, <2>1, <2>2 DEF DestroyFiber
<1>15. ASSUME Cleanup PROVE TypeOK'
  <2>1. heapLive' \subseteq Blocks /\ fault' \in {"none", "assertion", "bad free"}
        BY <1>15, FreeNativeType DEF Cleanup
  <2>2. table' \in Seq(Entries) BY <1>15 DEF Cleanup
  <2>3. fibers' \in [Fibers -> FiberRecords]
    <3>1. Absent \in FiberRecords BY DEF Absent, FiberRecords
    <3> QED BY <1>15, <3>1 DEF Cleanup
  <2> QED BY <1>15, <2>1, <2>2, <2>3 DEF Cleanup, TypeOK
<1>16. ASSUME UNCHANGED vars PROVE TypeOK'
  BY <1>16 DEF vars, TypeOK
<1> QED
  <2>1. CASE Next
        BY <2>1, <1>1, <1>2, <1>3, <1>4, <1>5, <1>6, <1>7, <1>8, <1>9, <1>10, <1>11, <1>12,
           <1>13, <1>14, <1>15
        DEF Next
  <2> QED BY <2>1, <1>16

(* Every variable always has its type.                                       *)
THEOREM TypeCorrect == Spec => []TypeOK
BY InitType, NextType, PTL DEF Spec

-----------------------------------------------------------------------------
(* Generations *)

(* An entry made in the current generation shows it until that many trims    *)
(* later; a piece is told from the others by its block, which was entered at *)
(* another index, or at the same one before the table was trimmed.           *)
EntryGeneration(i, e, len, now) ==
    /\ e.born <= now
    /\ e.blk.born <= now
    /\ e.blk.slot > len => e.blk.born < now
    /\ Kind(i, e) = "plain" => e.gen % AddrGens = e.born % AddrGens

(* The inductive invariant: generations count the trims, in the counter, in  *)
(* the entries and in the addresses of entries that are gone; and whatever   *)
(* is at the index of such an address is younger than what was there.        *)
GenInv ==
    /\ curGen % AddrGens = epoch % AddrGens
    /\ \A i \in 1..Len(table) : EntryGeneration(i, table[i], Len(table), epoch)
    /\ \A r \in retired :
          /\ r.born < epoch
          /\ r.kind = "plain" => r.gen = r.born % AddrGens
          /\ r.slot \in 1..Len(table) => table[r.slot].born > r.born

(* What a step that leaves an entry where it is does not change about it.    *)
Same(d, e) == d.src = e.src /\ d.gen = e.gen /\ d.blk = e.blk /\ d.born = e.born

(* The kind of an entry depends on nothing else.                             *)
LEMMA SameKind ==
    ASSUME NEW i, NEW d, NEW e, Same(d, e)
    PROVE  Kind(i, d) = Kind(i, e)
BY DEF Same, Kind, IsPiece

(* The invariant implies the property.                                       *)
LEMMA GenInvImplies == TypeOK /\ GenInv => StaleAddressesStayDead
<1> SUFFICES ASSUME TypeOK, GenInv, NEW r \in retired, r.kind = "plain", Resolves(r),
                    Kind(r.slot, table[r.slot]) = "plain"
             PROVE  table[r.slot].born >= r.born + AddrGens
    BY DEF StaleAddressesStayDead
<1> DEFINE b == table[r.slot].born
<1>1. r.slot \in 1..Len(table) /\ table[r.slot] \in Entries BY ResolvesToEntry
<1>2. b \in Nat BY <1>1 DEF Entries
<1>3. r.born \in Nat BY Types DEF Retired
<1>4. b > r.born BY <1>1 DEF GenInv
<1>5. b % AddrGens = r.born % AddrGens
  <2>1. table[r.slot].gen % AddrGens = r.gen BY DEF Resolves
  <2>2. table[r.slot].gen % AddrGens = b % AddrGens BY <1>1 DEF GenInv, EntryGeneration
  <2>3. r.gen = r.born % AddrGens BY DEF GenInv
  <2> QED BY <2>1, <2>2, <2>3
<1> HIDE DEF b
<1>6. AddrGens \in Nat \ {0} BY MemoryAssumption DEF MemoryAssumption
<1>7. b >= r.born + AddrGens BY <1>2, <1>3, <1>4, <1>5, <1>6, CongruentApart
<1> QED BY <1>7 DEF b

(* Initially no entry has been trimmed.                                      *)
LEMMA GenInit == Init => GenInv
<1> SUFFICES ASSUME Init PROVE GenInv
    OBVIOUS
<1>1. curGen = 0 /\ epoch = 0 /\ retired = {} BY DEF Init
<1>2. ASSUME NEW i \in 1..Len(table) PROVE EntryGeneration(i, table[i], Len(table), epoch)
  <2>1. Len(table) = Len(Globals) /\ table[i] = GlobalEntry(i)
    <3>1. table = [j \in 1..Len(Globals) |-> GlobalEntry(j)] BY DEF Init
    <3>2. Len(Globals) \in Nat BY MemoryAssumption DEF MemoryAssumption
    <3>3. Len(table) = Len(Globals) BY <3>1, <3>2
    <3> QED BY <3>1, <3>3
  <2>2. /\ table[i].born = 0 /\ table[i].gen = 0
        /\ table[i].blk.slot = i /\ table[i].blk.born = 0
        BY <1>1, <2>1 DEF GlobalEntry, NewEntry
  <2>3. i <= Len(table) /\ i \in Nat BY <2>1, MemoryAssumption DEF MemoryAssumption
  <2>4. ~(i > Len(table))
    <3>1. Len(table) \in Nat BY <2>1, MemoryAssumption DEF MemoryAssumption
    <3> QED BY <2>3, <3>1
  <2> QED BY <1>1, <2>2, <2>4 DEF EntryGeneration
<1> QED BY <1>1, <1>2 DEF GenInv

(* A step that keeps the entries in the table and appends entries of the     *)
(* current generation, or pieces, preserves the invariant.                   *)
LEMMA ExtendKeepsGenInv ==
    ASSUME TypeOK, TypeOK', GenInv, UNCHANGED <<curGen, epoch, retired>>,
           Len(table') >= Len(table),
           \A i \in 1..Len(table) : Same(table'[i], table[i]),
           \A i \in Len(table) + 1..Len(table') :
              /\ table'[i].born = epoch
              /\ EntryGeneration(i, table'[i], Len(table'), epoch)
    PROVE  GenInv'
<1>1. /\ Len(table) \in Nat /\ Len(table') \in Nat /\ epoch \in Nat
      /\ \A i \in 1..Len(table) : table[i] \in Entries
      /\ \A i \in 1..Len(table') : table'[i] \in Entries
  <2>1. /\ Len(table) \in Nat /\ epoch \in Nat
        /\ \A i \in 1..Len(table) : table[i] \in Entries
        BY Types
  <2>2. table' \in Seq(Entries) BY DEF TypeOK
  <2> QED BY <2>1, <2>2
<1>2. curGen' % AddrGens = epoch' % AddrGens BY DEF GenInv
<1>3. ASSUME NEW i \in 1..Len(table') PROVE EntryGeneration(i, table'[i], Len(table'), epoch)
  <2>1. CASE i \in 1..Len(table)
    <3>1. EntryGeneration(i, table[i], Len(table), epoch) BY <2>1 DEF GenInv
    <3>2. Same(table'[i], table[i]) BY <2>1
    <3>3. Kind(i, table'[i]) = Kind(i, table[i]) BY <3>2, SameKind
    <3>4. table[i].blk.slot \in Nat BY <1>1, <2>1 DEF Entries, Blocks
    <3>5. table[i].blk.slot > Len(table') => table[i].blk.slot > Len(table) BY <1>1, <3>4
    <3> QED BY <3>1, <3>2, <3>3, <3>5 DEF EntryGeneration, Same
  <2>2. CASE i \in Len(table) + 1..Len(table') BY <2>2
  <2> QED BY <1>1, <2>1, <2>2
<1>4. ASSUME NEW r \in retired PROVE /\ r.born < epoch
                                     /\ r.kind = "plain" => r.gen = r.born % AddrGens
                                     /\ r.slot \in 1..Len(table') => table'[r.slot].born > r.born
  <2>1. /\ r.born < epoch
        /\ r.kind = "plain" => r.gen = r.born % AddrGens
        /\ r.slot \in 1..Len(table) => table[r.slot].born > r.born
        BY DEF GenInv
  <2>2. ASSUME r.slot \in 1..Len(table') PROVE table'[r.slot].born > r.born
    <3>1. CASE r.slot \in 1..Len(table) BY <2>1, <3>1 DEF Same
    <3>2. CASE r.slot \in Len(table) + 1..Len(table')
      <4>1. r.born \in Nat BY Types DEF Retired
      <4>2. table'[r.slot].born = epoch BY <3>2
      <4> QED BY <1>1, <2>1, <4>1, <4>2
    <3> QED BY <1>1, <2>2, <3>1, <3>2
  <2> QED BY <2>1, <2>2
<1> QED
  <2>1. \A i \in 1..Len(table') : EntryGeneration(i, table'[i], Len(table'), epoch') BY <1>3
  <2> QED BY <1>2, <2>1, <1>4 DEF GenInv

(* Marking entries as freed leaves them where they are.                      *)
LEMMA MarkFreedSame ==
    ASSUME TypeOK, NEW slots
    PROVE  /\ MarkFreed(slots) \in Seq(Entries)
           /\ Len(MarkFreed(slots)) = Len(table)
           /\ \A i \in 1..Len(table) : Same(MarkFreed(slots)[i], table[i])
<1>1. table \in Seq(Entries) BY Types
<1>2. ASSUME NEW i \in 1..Len(table) PROVE Same(MarkFreed(slots)[i], table[i])
  <2>1. table[i] \in Entries BY <1>1
  <2>2. MarkFreed(slots)[i] \in {table[i], [table[i] EXCEPT !.status = "freed"]}
        BY <1>1, MarkFreedShape
  <2> QED BY <2>1, <2>2 DEF Same, Entries
<1> QED BY <1>1, <1>2, MarkFreedShape

(* A step that only changes entries in place preserves the invariant.        *)
LEMMA TouchKeepsGenInv ==
    ASSUME TypeOK, TypeOK', GenInv, UNCHANGED <<curGen, epoch, retired>>,
           Len(table') = Len(table),
           \A i \in 1..Len(table) : Same(table'[i], table[i])
    PROVE  GenInv'
<1>1. Len(table) \in Nat BY Types
<1>2. Len(table') >= Len(table) /\ Len(table) + 1..Len(table') = {} BY <1>1
<1> QED BY <1>2, ExtendKeepsGenInv

(* Trimming the table preserves the invariant: this is where the counter     *)
(* moves on, and where addresses retire.                                     *)
LEMMA TrimKeepsGenInv ==
    ASSUME TypeOK, TypeOK', GenInv, NEW t \in Seq(Entries), RemoveFreed(t),
           Len(t) = Len(table),
           \A i \in 1..Len(table) : Same(t[i], table[i])
    PROVE  GenInv'
<1>1. PICK n \in 0..Len(t) :
        /\ table' = SubSeq(t, 1, n)
        /\ retired' = retired \cup {Retire(t, i) : i \in n + 1..Len(t)}
        /\ IF n = Len(t)
           THEN UNCHANGED <<curGen, epoch>>
           ELSE /\ epoch' = epoch + 1
                /\ curGen' = (curGen + 1) % Generations
      BY DEF RemoveFreed, NextGeneration
<1>2. Len(t) \in Nat OBVIOUS
<1>3. Len(table') = n /\ \A i \in 1..n : table'[i] = t[i] BY <1>1, <1>2
<1>4. CASE n = Len(t)
  <2>1. UNCHANGED <<curGen, epoch>> BY <1>1, <1>4
  <2>2. n + 1..Len(t) = {} BY <1>2, <1>4
  <2>3. retired' = retired BY <1>1, <2>2
  <2> QED BY <1>3, <1>4, <2>1, <2>3, TouchKeepsGenInv
<1>5. CASE n # Len(t)
  <2>1. epoch \in Nat /\ curGen \in 0..Generations - 1 /\ curGen \in Nat
    <3>1. epoch \in Nat /\ curGen \in 0..Generations - 1 BY Types
    <3> QED BY <3>1, MemoryAssumption DEF MemoryAssumption
  <2>2. epoch' = epoch + 1 /\ curGen' = (curGen + 1) % Generations BY <1>1, <1>5
  <2>3. curGen' % AddrGens = epoch' % AddrGens
    <3>1. /\ Generations \in Nat \ {0} /\ AddrGens \in Nat \ {0} /\ Generations % AddrGens = 0
          /\ curGen < Generations
          BY <2>1, MemoryAssumption DEF MemoryAssumption
    <3>2. ((curGen + 1) % Generations) % AddrGens = (curGen + 1) % AddrGens
          BY <2>1, <3>1, WrapKeepsLowBits
    <3>3. curGen % AddrGens = epoch % AddrGens BY DEF GenInv
    <3>4. (curGen + 1) % AddrGens = (epoch + 1) % AddrGens
          BY <2>1, <3>1, <3>3, CongruentSuccessor
    <3> QED BY <2>2, <3>2, <3>4
  <2>4. ASSUME NEW i \in 1..Len(table)
        PROVE  /\ t[i] \in Entries
               /\ t[i].born <= epoch
               /\ t[i].blk.born <= epoch
               /\ Kind(i, t[i]) = "plain" => t[i].gen % AddrGens = t[i].born % AddrGens
    <3>1. EntryGeneration(i, table[i], Len(table), epoch) BY DEF GenInv
    <3>2. Same(t[i], table[i]) /\ Kind(i, t[i]) = Kind(i, table[i]) BY SameKind
    <3> QED BY <3>1, <3>2 DEF EntryGeneration, Same
  <2>5. ASSUME NEW i \in 1..Len(table')
        PROVE  EntryGeneration(i, table'[i], Len(table'), epoch')
    <3>1. i \in 1..Len(table) /\ table'[i] = t[i] BY <1>1, <1>2, <1>3
    <3>2. t[i].born \in Nat /\ t[i].blk.born \in Nat BY <2>4, <3>1 DEF Entries, Blocks
    <3>3. t[i].born <= epoch + 1 /\ t[i].blk.born < epoch + 1 /\ t[i].blk.born <= epoch + 1
          BY <2>1, <2>4, <3>1, <3>2
    <3> QED BY <2>2, <2>4, <3>1, <3>3 DEF EntryGeneration
  <2>6. ASSUME NEW r \in retired'
        PROVE  /\ r.born < epoch'
               /\ r.kind = "plain" => r.gen = r.born % AddrGens
               /\ r.slot \in 1..Len(table') => table'[r.slot].born > r.born
    <3>1. CASE r \in retired
      <4>1. /\ r.born < epoch
            /\ r.kind = "plain" => r.gen = r.born % AddrGens
            /\ r.slot \in 1..Len(table) => table[r.slot].born > r.born
            BY <3>1 DEF GenInv
      <4>2. r.born \in Nat BY <3>1, Types DEF Retired
      <4>3. r.born < epoch + 1 BY <2>1, <4>1, <4>2
      <4>4. ASSUME r.slot \in 1..Len(table') PROVE table'[r.slot].born > r.born
        <5>1. r.slot \in 1..Len(table) /\ table'[r.slot] = t[r.slot] BY <1>1, <1>2, <1>3, <4>4
        <5> QED BY <4>1, <5>1 DEF Same
      <4> QED BY <2>2, <4>1, <4>3, <4>4
    <3>2. CASE r \in {Retire(t, i) : i \in n + 1..Len(t)}
      <4>1. PICK i \in n + 1..Len(t) : r = Retire(t, i) BY <3>2
      <4>2. r.slot = i /\ r.gen = t[i].gen % AddrGens /\ r.born = t[i].born /\ r.kind = Kind(i, t[i])
            BY <4>1 DEF Retire
      <4>3. i \in 1..Len(table) BY <1>1, <1>2
      <4>4. t[i].born \in Nat BY <2>4, <4>3 DEF Entries
      <4>5. r.born < epoch + 1 BY <2>1, <2>4, <4>2, <4>3, <4>4
      <4>6. r.slot \notin 1..Len(table') BY <1>1, <1>2, <1>3, <4>2
      <4> QED BY <2>2, <2>4, <4>2, <4>3, <4>5, <4>6
    <3> QED BY <1>1, <3>1, <3>2
  <2> QED BY <2>3, <2>5, <2>6 DEF GenInv
<1> QED BY <1>4, <1>5

(* An entry that is pushed in the current generation.                        *)
LEMMA PushKeepsGenInv ==
    ASSUME TypeOK, TypeOK', GenInv, UNCHANGED <<curGen, epoch, retired>>,
           NEW e \in Entries, table' = Append(table, e),
           e.born = epoch, EntryGeneration(Len(table) + 1, e, Len(table) + 1, epoch)
    PROVE  GenInv'
<1>1. table \in Seq(Entries) /\ Len(table) \in Nat BY Types
<1>2. Len(table') = Len(table) + 1 BY <1>1
<1>3. \A i \in 1..Len(table) : table'[i] = table[i] BY <1>1
<1>4. table'[Len(table) + 1] = e BY <1>1
<1>5. Len(table) + 1..Len(table') = {Len(table) + 1} BY <1>1, <1>2
<1>6. Len(table') >= Len(table) BY <1>1, <1>2
<1>7. \A i \in 1..Len(table) : Same(table'[i], table[i]) BY <1>3 DEF Same
<1>8. \A i \in Len(table) + 1..Len(table') :
         table'[i].born = epoch /\ EntryGeneration(i, table'[i], Len(table'), epoch)
      BY <1>2, <1>4, <1>5
<1> QED BY <1>6, <1>7, <1>8, ExtendKeepsGenInv

(* A new entry has the generation the invariant asks for.                    *)
LEMMA NewEntryGeneration ==
    ASSUME epoch \in Nat, NEW src, NEW status, NEW slot \in Nat, NEW gen, NEW size,
           NEW len \in Nat, slot <= len,
           src = "fiber" \/ gen % AddrGens = epoch % AddrGens
    PROVE  EntryGeneration(slot, NewEntry(src, status, slot, gen, size), len, epoch)
<1> DEFINE e == NewEntry(src, status, slot, gen, size)
<1>1. /\ e.src = src /\ e.gen = gen /\ e.born = epoch
      /\ e.blk.slot = slot /\ e.blk.born = epoch
      BY DEF NewEntry
<1>2. ~(slot > len) /\ epoch <= epoch OBVIOUS
<1> HIDE DEF e
<1>3. Kind(slot, e) = "plain" => e.src # "fiber" BY DEF Kind
<1>4. EntryGeneration(slot, e, len, epoch) BY <1>1, <1>2, <1>3 DEF EntryGeneration
<1> QED BY <1>4 DEF e

(* Pushing a heap entry preserves the invariant.                             *)
LEMMA PushHeapKeepsGenInv ==
    ASSUME TypeOK, TypeOK', GenInv, UNCHANGED <<curGen, epoch, retired>>,
           NEW size \in Nat, PushHeap(size)
    PROVE  GenInv'
<1> DEFINE e == NewEntry("heap", "allocated", Len(table) + 1, curGen, size)
<1>1. Len(table) \in Nat /\ epoch \in Nat /\ curGen \in 0..Generations - 1 BY Types
<1>2. Len(table) + 1 \in Nat /\ Len(table) + 1 <= Len(table) + 1 BY <1>1
<1>3. e \in Entries BY <1>1, <1>2, NewEntryType DEF Sources, Statuses
<1>4. curGen % AddrGens = epoch % AddrGens BY DEF GenInv
<1>5. EntryGeneration(Len(table) + 1, e, Len(table) + 1, epoch)
      BY <1>1, <1>2, <1>4, NewEntryGeneration
<1>6. e.born = epoch BY DEF NewEntry
<1>7. table' = Append(table, e) BY DEF PushHeap, Push
<1> HIDE DEF e
<1> QED BY <1>3, <1>5, <1>6, <1>7, PushKeepsGenInv

(* Every step preserves the invariant.                                       *)
LEMMA GenNext == TypeOK /\ TypeOK' /\ GenInv /\ [Next]_vars => GenInv'
<1> SUFFICES ASSUME TypeOK, TypeOK', GenInv, [Next]_vars PROVE GenInv'
    OBVIOUS
<1>a. /\ table \in Seq(Entries) /\ Len(table) \in Nat /\ epoch \in Nat
      /\ curGen \in 0..Generations - 1
      BY Types
<1>b. curGen % AddrGens = epoch % AddrGens BY DEF GenInv
<1>c. Len(table) + 1 \in Nat /\ Len(table) + 1 <= Len(table) + 1 BY <1>a
<1>1. ASSUME NEW size \in StaticSizes, AddStatic(size) PROVE GenInv'
  <2> DEFINE e == NewEntry("static", "allocated", Len(table) + 1, curGen, size)
  <2>1. size \in Nat BY MemoryAssumption DEF MemoryAssumption
  <2>2. e \in Entries BY <1>a, <1>c, <2>1, NewEntryType DEF Sources, Statuses
  <2>3. EntryGeneration(Len(table) + 1, e, Len(table) + 1, epoch)
        BY <1>a, <1>b, <1>c, NewEntryGeneration
  <2>4. e.born = epoch BY DEF NewEntry
  <2>5. table' = Append(table, e) /\ UNCHANGED <<curGen, epoch, retired>>
        BY <1>1 DEF AddStatic, Push
  <2> HIDE DEF e
  <2> QED BY <2>2, <2>3, <2>4, <2>5, PushKeepsGenInv
<1>2. ASSUME NEW size \in HeapSizes, HeapAlloc(size) PROVE GenInv'
  <2>1. size \in Nat BY MemoryAssumption DEF MemoryAssumption
  <2> QED BY <1>2, <2>1, PushHeapKeepsGenInv DEF HeapAlloc
<1>3. ASSUME NEW a \in Addresses, TransferLocal(a) PROVE GenInv'
  <2>1. table[a.slot] \in Entries BY <1>3, ResolvesToEntry DEF TransferLocal
  <2>2. table[a.slot].size \in Nat BY <2>1 DEF Entries
  <2> QED BY <1>3, <2>2, PushHeapKeepsGenInv DEF TransferLocal
<1>4. ASSUME NEW slots, table' = MarkFreed(slots), UNCHANGED <<curGen, epoch, retired>>
      PROVE  GenInv'
  BY <1>4, MarkFreedSame, TouchKeepsGenInv
<1>5. ASSUME NEW a \in Addresses, Poison(a) \/ Unpoison(a) PROVE GenInv'
  <2>1. a.slot \in 1..Len(table) /\ table[a.slot] \in Entries
        BY <1>5, ResolvesToEntry DEF Poison, Unpoison
  <2>2. PICK st \in Statuses : table' = [table EXCEPT ![a.slot] = [table[a.slot] EXCEPT !.status = st]]
        BY <1>5 DEF Poison, Unpoison, Statuses
  <2> DEFINE d == [table[a.slot] EXCEPT !.status = st]
  <2>3. d \in Entries /\ Same(d, table[a.slot]) BY <2>1 DEF Entries, Same
  <2>4. table' = [table EXCEPT ![a.slot] = d] BY <2>2
  <2> HIDE DEF d
  <2>5. /\ Len(table') = Len(table)
        /\ \A i \in 1..Len(table) : table'[i] = IF i = a.slot THEN d ELSE table[i]
        BY <1>a, <2>1, <2>3, <2>4, ExceptSeq
  <2>6. \A i \in 1..Len(table) : Same(table'[i], table[i]) BY <2>3, <2>5 DEF Same
  <2>7. UNCHANGED <<curGen, epoch, retired>> BY <1>5 DEF Poison, Unpoison
  <2> QED BY <2>5, <2>6, <2>7, TouchKeepsGenInv
<1>6. ASSUME NEW a \in Addresses, NEW offset \in SplitOffsets, NEW moved \in BOOLEAN,
             Split(a, offset, moved)
      PROVE  GenInv'
  <2> DEFINE e == table[a.slot]
             h == HeadPiece(e, offset)
             p == TailPiece(e, offset)
             t == IF moved THEN table ELSE [table EXCEPT ![a.slot] = h]
  <2>1. a.slot \in 1..Len(table) /\ e \in Entries BY <1>6, ResolvesToEntry DEF Split
  <2>2. offset \in Nat /\ offset < e.size BY <1>6, MemoryAssumption DEF MemoryAssumption, Split
  <2>3. p \in Entries /\ h \in Entries BY <1>a, <2>1, <2>2, PieceType
  <2>4. Same(h, e) BY <2>1 DEF HeadPiece, Same, Entries
  <2>5. p.blk = e.blk /\ p.gen = e.gen /\ p.src = e.src /\ p.born = epoch
        BY <2>1 DEF TailPiece, Entries
  <2>6. table' = Append(t, p) /\ UNCHANGED <<curGen, epoch, retired>> BY <1>6 DEF Split
  <2>7. EntryGeneration(a.slot, e, Len(table), epoch) BY <2>1 DEF GenInv
  <2> HIDE DEF e, h, p
  <2>8. /\ t \in Seq(Entries) /\ Len(t) = Len(table)
        /\ \A i \in 1..Len(table) : Same(t[i], table[i])
    <3>1. CASE moved BY <1>a, <3>1 DEF Same
    <3>2. CASE ~moved
      <4>1. t = [table EXCEPT ![a.slot] = h] BY <3>2
      <4>2. /\ t \in Seq(Entries) /\ Len(t) = Len(table)
            /\ \A i \in 1..Len(table) : t[i] = IF i = a.slot THEN h ELSE table[i]
            BY <1>a, <2>1, <2>3, <4>1, ExceptSeq
      <4> HIDE DEF t
      <4>3. \A i \in 1..Len(table) : Same(t[i], table[i]) BY <2>4, <4>2 DEF Same, e
      <4> QED BY <4>2, <4>3
    <3> QED BY <3>1, <3>2
  <2> HIDE DEF t
  <2>9. /\ Len(table') = Len(table) + 1
        /\ \A i \in 1..Len(table) : table'[i] = t[i]
        /\ table'[Len(table) + 1] = p
        BY <1>a, <2>3, <2>6, <2>8
  <2>10. EntryGeneration(Len(table) + 1, p, Len(table) + 1, epoch)
    <3>1. e.blk.slot \in Nat /\ e.blk.born \in Nat BY <2>1 DEF Entries, Blocks
    <3>2. e.blk.slot > Len(table) + 1 => e.blk.born < epoch
          BY <1>a, <2>7, <3>1 DEF EntryGeneration
    <3>3. Kind(Len(table) + 1, p) # "plain"
      <4>1. SUFFICES ASSUME p.blk.slot = Len(table) + 1, p.blk.born = p.born PROVE FALSE
            BY DEF Kind, IsPiece
      <4>2. e.blk.slot > Len(table) BY <1>a, <2>5, <4>1
      <4>3. e.blk.born < epoch BY <2>7, <4>2 DEF EntryGeneration
      <4> QED BY <1>a, <2>5, <3>1, <4>1, <4>3
    <3>4. p.born <= epoch /\ p.blk.born <= epoch BY <1>a, <2>5, <2>7 DEF EntryGeneration
    <3> QED BY <2>5, <3>2, <3>3, <3>4 DEF EntryGeneration
  <2>11. /\ Len(table') >= Len(table)
         /\ Len(table) + 1..Len(table') = {Len(table) + 1}
         BY <1>a, <2>9
  <2>12. \A i \in 1..Len(table) : Same(table'[i], table[i]) BY <2>8, <2>9
  <2>13. \A i \in Len(table) + 1..Len(table') :
            table'[i].born = epoch /\ EntryGeneration(i, table'[i], Len(table'), epoch)
         BY <2>5, <2>9, <2>10, <2>11
  <2> QED BY <2>6, <2>11, <2>12, <2>13, ExtendKeepsGenInv
<1>7. ASSUME NEW a1 \in Addresses, NEW a2 \in Addresses, Merge(a1, a2) PROVE GenInv'
  <2> DEFINE i1 == a1.slot
             i2 == a2.slot
             d1 == Grown(table[i1], table[i2])
             d2 == [table[i2] EXCEPT !.status = "freed"]
             t  == [table EXCEPT ![i1] = d1]
  <2>1. /\ i1 \in 1..Len(table) /\ table[i1] \in Entries
        /\ i2 \in 1..Len(table) /\ table[i2] \in Entries
        BY <1>7, ResolvesToEntry DEF Merge
  <2>2. d1 \in Entries BY <2>1, GrownType
  <2>3. Same(d1, table[i1]) BY <2>1 DEF Grown, Same, Entries
  <2>4. d2 \in Entries /\ Same(d2, table[i2]) BY <2>1 DEF Entries, Statuses, Same
  <2>5. table' = [table EXCEPT ![i1] = d1, ![i2].status = "freed"] /\ i1 # i2
        BY <1>7 DEF Merge
  <2>6. UNCHANGED <<curGen, epoch, retired>> BY <1>7 DEF Merge
  <2> HIDE DEF i1, i2, d1
  <2>7. /\ t \in Seq(Entries) /\ Len(t) = Len(table)
        /\ \A i \in 1..Len(table) : t[i] = IF i = i1 THEN d1 ELSE table[i]
        BY <1>a, <2>1, <2>2, ExceptSeq
  <2>8. table' = [t EXCEPT ![i2] = d2]
    <3>1. t[i2] = table[i2] BY <2>1, <2>5, <2>7
    <3> QED BY <2>5, <3>1
  <2> HIDE DEF t, d2
  <2>9. /\ Len(table') = Len(table)
        /\ \A i \in 1..Len(table) : table'[i] = IF i = i2 THEN d2 ELSE t[i]
        BY <2>1, <2>4, <2>7, <2>8, ExceptSeq
  <2>10. \A i \in 1..Len(table) : Same(table'[i], table[i])
         BY <2>3, <2>4, <2>7, <2>9 DEF Same
  <2> QED BY <2>6, <2>9, <2>10, TouchKeepsGenInv
<1>8. ASSUME NEW f \in Fibers, CreateFiber(f) PROVE GenInv'
  <2> DEFINE e == NewEntry("fiber", "poison", Len(table) + 1, 0, 0)
  <2>1. 0 \in 0..Generations - 1 BY MemoryAssumption DEF MemoryAssumption
  <2>2. e \in Entries BY <1>a, <1>c, <2>1, NewEntryType DEF Sources, Statuses
  <2>3. EntryGeneration(Len(table) + 1, e, Len(table) + 1, epoch)
        BY <1>a, <1>c, NewEntryGeneration
  <2>4. e.born = epoch BY DEF NewEntry
  <2>5. table' = Append(table, e) /\ UNCHANGED <<curGen, epoch, retired>>
        BY <1>8 DEF CreateFiber, Push
  <2> HIDE DEF e
  <2> QED BY <2>2, <2>3, <2>4, <2>5, PushKeepsGenInv
<1>9. ASSUME UNCHANGED <<table, curGen, epoch, retired>> PROVE GenInv'
  <2>1. \A i \in 1..Len(table) : Same(table'[i], table[i]) BY <1>9 DEF Same
  <2> QED BY <1>9, <2>1, TouchKeepsGenInv
<1>10. ASSUME SetupLocals PROVE GenInv'
  <2> DEFINE n == calling.count
             gen == curGen % AddrGens
             e(k) == NewEntry("local", "allocated", Len(table) + k, gen, LocalSize)
             new == [k \in 1..n |-> e(k)]
  <2>1. n \in Nat BY <1>10, Types, MemoryAssumption DEF SetupLocals, MemoryAssumption
  <2>2. table' = table \o new /\ UNCHANGED <<curGen, epoch, retired>> BY <1>10 DEF SetupLocals
  <2>3. gen % AddrGens = epoch % AddrGens
    <3>1. curGen \in Nat /\ AddrGens \in Nat \ {0} BY <1>a, MemoryAssumption DEF MemoryAssumption
    <3> QED BY <1>b, <3>1, LowBitsOfLowBits
  <2> HIDE DEF gen, n
  <2>4. /\ Len(table') = Len(table) + n
        /\ \A i \in 1..Len(table) : table'[i] = table[i]
        /\ \A k \in 1..n : table'[Len(table) + k] = e(k)
    <3> HIDE DEF e
    <3>1. Len(new) = n /\ \A k \in 1..n : new[k] = e(k) BY <2>1
    <3> DEFINE S == {table[i] : i \in 1..Len(table)} \cup {e(k) : k \in 1..n}
    <3>2. table \in Seq(S) /\ new \in Seq(S) BY <1>a, <2>1
    <3> HIDE DEF S, new
    <3>3. /\ Len(table') = Len(table) + n
          /\ \A i \in 1..Len(table) + n :
                table'[i] = IF i <= Len(table) THEN table[i] ELSE new[i - Len(table)]
          BY <2>2, <3>1, <3>2, ConcatProperties
    <3>4. \A i \in 1..Len(table) : table'[i] = table[i] BY <1>a, <2>1, <3>3
    <3>5. ASSUME NEW k \in 1..n PROVE table'[Len(table) + k] = e(k)
      <4>1. /\ Len(table) + k \in 1..Len(table) + n /\ ~(Len(table) + k <= Len(table))
            /\ (Len(table) + k) - Len(table) = k
            BY <1>a, <2>1
      <4>2. table'[Len(table) + k] = new[(Len(table) + k) - Len(table)] BY <3>3, <4>1
      <4> QED BY <3>1, <4>1, <4>2
    <3> QED BY <3>3, <3>4, <3>5
  <2>5. Len(table') >= Len(table) BY <1>a, <2>1, <2>4
  <2>6. \A i \in 1..Len(table) : Same(table'[i], table[i]) BY <2>4 DEF Same
  <2>7. ASSUME NEW i \in Len(table) + 1..Len(table')
        PROVE  table'[i].born = epoch /\ EntryGeneration(i, table'[i], Len(table'), epoch)
    <3> DEFINE k == i - Len(table)
    <3>1. k \in 1..n /\ i = Len(table) + k /\ i \in Nat /\ Len(table') \in Nat /\ i <= Len(table')
          BY <1>a, <2>1, <2>4
    <3> HIDE DEF k
    <3>2. table'[i] = NewEntry("local", "allocated", i, gen, LocalSize) BY <2>4, <3>1
    <3>3. table'[i].born = epoch BY <3>2 DEF NewEntry
    <3>4. EntryGeneration(i, table'[i], Len(table'), epoch)
          BY <1>a, <2>3, <3>1, <3>2, NewEntryGeneration
    <3> QED BY <3>3, <3>4
  <2> QED BY <2>2, <2>5, <2>6, <2>7, ExtendKeepsGenInv
<1>11. ASSUME NEW slots, RemoveFreed(MarkFreed(slots)) PROVE GenInv'
  BY <1>11, MarkFreedSame, TrimKeepsGenInv
<1>12. ASSUME Cleanup PROVE GenInv'
  <2>1. table' = <<>> /\ UNCHANGED <<curGen, epoch, retired>> BY <1>12 DEF Cleanup
  <2>2. 1..Len(table') = {} BY <2>1
  <2> QED BY <2>1, <2>2 DEF GenInv
<1> QED
  <2>1. CASE \E a \in Addresses : HeapFree(a)
        BY <2>1, <1>4 DEF HeapFree
  <2>2. CASE \E unreachable \in SUBSET (1..Len(table)) : Collect(unreachable)
        BY <2>2, <1>4 DEF Collect
  <2>3. CASE \E f \in Fibers : ReturnFree(f)
        BY <2>3, <1>4, <1>11 DEF ReturnFree
  <2>4. CASE \E f \in Fibers : DestroyFiber(f)
        BY <2>4, <1>4, <1>11 DEF DestroyFiber
  <2>5. CASE GrowTable \/ \E f \in Fibers : \E n \in LocalCounts : Call(f, n)
        BY <2>5, <1>9 DEF GrowTable, Call
  <2>6. CASE UNCHANGED vars
        BY <2>6, <1>9 DEF vars
  <2> QED BY <2>1, <2>2, <2>3, <2>4, <2>5, <2>6, <1>1, <1>2, <1>3, <1>5, <1>6, <1>7, <1>8,
             <1>10, <1>12
          DEF Next

(* Use after free stays detectable for as long as the bits of an address     *)
(* allow, whatever the order in which fibers allocate, free and trim.        *)
THEOREM UseAfterFreeDetected == Spec => []StaleAddressesStayDead
<1>1. Init => TypeOK /\ GenInv BY InitType, GenInit
<1>2. TypeOK /\ GenInv /\ [Next]_vars => (TypeOK /\ GenInv)' BY NextType, GenNext
<1>3. TypeOK /\ GenInv => StaleAddressesStayDead BY GenInvImplies
<1> QED BY <1>1, <1>2, <1>3, PTL DEF Spec

-----------------------------------------------------------------------------
(* What each step does to the table *)

(* What is the same about an entry however its status changes.               *)
SameForm(d, e) ==
    /\ d.src = e.src /\ d.gen = e.gen
    /\ d.blk = e.blk /\ d.off = e.off /\ d.size = e.size /\ d.split = e.split

(* Marking entries as freed changes only their status.                       *)
LEMMA MarkFreedForm ==
    ASSUME TypeOK, NEW slots
    PROVE  /\ Len(MarkFreed(slots)) = Len(table)
           /\ \A i \in 1..Len(table) : SameForm(MarkFreed(slots)[i], table[i])
<1>1. table \in Seq(Entries) BY Types
<1>2. ASSUME NEW i \in 1..Len(table) PROVE SameForm(MarkFreed(slots)[i], table[i])
  <2>1. table[i] \in Entries BY <1>1
  <2>2. MarkFreed(slots)[i] \in {table[i], [table[i] EXCEPT !.status = "freed"]}
        BY <1>1, MarkFreedShape
  <2> QED BY <2>1, <2>2 DEF SameForm, Entries
<1> QED BY <1>1, <1>2, MarkFreedShape

(* A new entry goes to the end.                                              *)
LEMMA AppendTable ==
    ASSUME TypeOK, NEW e, table' = Append(table, e)
    PROVE  /\ Len(table') = Len(table) + 1
           /\ \A i \in 1..Len(table) : table'[i] = table[i]
           /\ table'[Len(table) + 1] = e
<1>1. table \in Seq(Entries) BY Types
<1> QED BY <1>1

(* The locals of a frame go to the end, whole and of one generation.         *)
LEMMA SetUpTable ==
    ASSUME TypeOK, SetupLocals
    PROVE  /\ calling.count \in Nat
           /\ Len(table') = Len(table) + calling.count
           /\ \A i \in 1..Len(table) : table'[i] = table[i]
           /\ \A i \in Len(table) + 1..Len(table') :
                 table'[i] = NewEntry("local", "allocated", i, curGen % AddrGens, LocalSize)
<1> DEFINE n == calling.count
           e(k) == NewEntry("local", "allocated", Len(table) + k, curGen % AddrGens, LocalSize)
           new == [k \in 1..n |-> e(k)]
<1>1. n \in Nat BY Types, MemoryAssumption DEF SetupLocals, MemoryAssumption
<1>2. table' = table \o new BY DEF SetupLocals
<1>3. table \in Seq(Entries) /\ Len(table) \in Nat BY Types
<1> HIDE DEF e, n
<1> DEFINE S == {table[i] : i \in 1..Len(table)} \cup {e(k) : k \in 1..n}
<1>4. table \in Seq(S) /\ new \in Seq(S) /\ Len(new) = n /\ \A k \in 1..n : new[k] = e(k)
      BY <1>1, <1>3
<1> HIDE DEF S, new
<1>5. /\ Len(table') = Len(table) + n
      /\ \A i \in 1..Len(table) + n :
            table'[i] = IF i <= Len(table) THEN table[i] ELSE new[i - Len(table)]
      BY <1>2, <1>4, ConcatProperties
<1>6. ASSUME NEW i \in 1..Len(table) PROVE table'[i] = table[i]
  <2>1. i \in 1..Len(table) + n /\ i <= Len(table) BY <1>1, <1>3
  <2> QED BY <1>5, <2>1
<1>7. ASSUME NEW i \in Len(table) + 1..Len(table')
      PROVE  table'[i] = NewEntry("local", "allocated", i, curGen % AddrGens, LocalSize)
  <2> DEFINE k == i - Len(table)
  <2>1. /\ i \in 1..Len(table) + n /\ ~(i <= Len(table)) /\ k \in 1..n
        /\ Len(table) + k = i
        BY <1>1, <1>3, <1>5
  <2> HIDE DEF k
  <2>2. table'[i] = new[i - Len(table)] BY <1>5, <2>1
  <2>3. i - Len(table) = k BY <2>1 DEF k
  <2>4. table'[i] = e(k) BY <1>4, <2>1, <2>2, <2>3
  <2> QED BY <2>1, <2>4 DEF e
<1> QED BY <1>1, <1>5, <1>6, <1>7 DEF n

(* poison and unpoison change only the status, and never of a fiber.         *)
LEMMA PoisonTable ==
    ASSUME TypeOK, NEW a \in Addresses, Poison(a) \/ Unpoison(a)
    PROVE  /\ Len(table') = Len(table)
           /\ \A i \in 1..Len(table) :
                 /\ SameForm(table'[i], table[i])
                 /\ CanBeFreed(table'[i]) <=> CanBeFreed(table[i])
                 /\ table[i].src = "fiber" => table'[i] = table[i]
<1>0. table \in Seq(Entries) BY Types
<1>1. a.slot \in 1..Len(table) /\ table[a.slot] \in Entries
      BY ResolvesToEntry DEF Poison, Unpoison
<1>2. PICK st \in {"allocated", "poison"} :
          table' = [table EXCEPT ![a.slot] = [table[a.slot] EXCEPT !.status = st]]
      BY DEF Poison, Unpoison
<1>3. CanBeFreed(table[a.slot]) /\ table[a.slot].src # "fiber"
      BY MemoryAssumption DEF MemoryAssumption, Poison, Unpoison, IsUsable, CanBeFreed
<1> DEFINE d == [table[a.slot] EXCEPT !.status = st]
<1>4. d \in Entries /\ SameForm(d, table[a.slot]) /\ CanBeFreed(d)
      BY <1>1, <1>2 DEF Entries, Statuses, SameForm, CanBeFreed
<1>5. table' = [table EXCEPT ![a.slot] = d] BY <1>2
<1> HIDE DEF d
<1>6. /\ Len(table') = Len(table)
      /\ \A i \in 1..Len(table) : table'[i] = IF i = a.slot THEN d ELSE table[i]
      BY <1>0, <1>1, <1>4, <1>5, ExceptSeq
<1> QED BY <1>3, <1>4, <1>6 DEF SameForm

(* split appends the tail, and rewrites the head unless the table moved.     *)
LEMMA SplitTable ==
    ASSUME TypeOK, NEW a \in Addresses, NEW offset \in SplitOffsets, NEW moved \in BOOLEAN,
           Split(a, offset, moved)
    PROVE  /\ a.slot \in 1..Len(table) /\ table[a.slot] \in Entries
           /\ CanBeFreed(table[a.slot])
           /\ offset \in Nat /\ offset < table[a.slot].size
           /\ Len(table') = Len(table) + 1
           /\ \A i \in 1..Len(table) :
                 table'[i] = IF i = a.slot /\ ~moved THEN HeadPiece(table[a.slot], offset) ELSE table[i]
           /\ table'[Len(table) + 1] = TailPiece(table[a.slot], offset)
<1> DEFINE e == table[a.slot]
           h == HeadPiece(e, offset)
           p == TailPiece(e, offset)
           t == IF moved THEN table ELSE [table EXCEPT ![a.slot] = h]
<1>0. table \in Seq(Entries) /\ Len(table) \in Nat BY Types
<1>1. a.slot \in 1..Len(table) /\ e \in Entries BY ResolvesToEntry DEF Split
<1>2. offset \in Nat /\ offset < e.size BY MemoryAssumption DEF MemoryAssumption, Split
<1>3. p \in Entries /\ h \in Entries BY <1>1, <1>2, Types, PieceType
<1>4. CanBeFreed(e) BY DEF Split, IsUsable, CanBeFreed
<1>5. table' = Append(t, p) BY DEF Split
<1> HIDE DEF e, h, p
<1>6. /\ t \in Seq(Entries) /\ Len(t) = Len(table)
      /\ \A i \in 1..Len(table) : t[i] = IF i = a.slot /\ ~moved THEN h ELSE table[i]
  <2>1. CASE moved BY <1>0, <2>1
  <2>2. CASE ~moved
    <3>1. t = [table EXCEPT ![a.slot] = h] BY <2>2
    <3>2. /\ t \in Seq(Entries) /\ Len(t) = Len(table)
          /\ \A i \in 1..Len(table) : t[i] = IF i = a.slot THEN h ELSE table[i]
          BY <1>0, <1>1, <1>3, <3>1, ExceptSeq
    <3> QED BY <2>2, <3>2
  <2> QED BY <2>1, <2>2
<1> HIDE DEF t
<1>7. /\ Len(table') = Len(table) + 1 /\ \A i \in 1..Len(table) : table'[i] = t[i]
      /\ table'[Len(table) + 1] = p
      BY <1>3, <1>5, <1>6
<1> QED BY <1>1, <1>2, <1>4, <1>6, <1>7 DEF e, h, p

(* merge grows the first piece and frees the second.                         *)
LEMMA MergeTable ==
    ASSUME TypeOK, NEW a1 \in Addresses, NEW a2 \in Addresses, Merge(a1, a2)
    PROVE  /\ a1.slot \in 1..Len(table) /\ table[a1.slot] \in Entries
           /\ a2.slot \in 1..Len(table) /\ table[a2.slot] \in Entries
           /\ a1.slot # a2.slot
           /\ CanBeFreed(table[a1.slot]) /\ CanBeFreed(table[a2.slot])
           /\ table[a1.slot].split # "unsplit" /\ table[a2.slot].split # "unsplit"
           /\ table[a1.slot].blk = table[a2.slot].blk
           /\ Adjacent(table[a1.slot], table[a2.slot])
           /\ InOrder => table[a2.slot].split # "split_first"
           /\ Len(table') = Len(table)
           /\ \A i \in 1..Len(table) :
                 table'[i] = IF i = a1.slot THEN Grown(table[a1.slot], table[a2.slot])
                             ELSE IF i = a2.slot THEN [table[i] EXCEPT !.status = "freed"]
                             ELSE table[i]
<1> DEFINE i1 == a1.slot
           i2 == a2.slot
           d1 == Grown(table[i1], table[i2])
           d2 == [table[i2] EXCEPT !.status = "freed"]
           t  == [table EXCEPT ![i1] = d1]
<1>0. table \in Seq(Entries) BY Types
<1>1. /\ i1 \in 1..Len(table) /\ table[i1] \in Entries
      /\ i2 \in 1..Len(table) /\ table[i2] \in Entries
      BY ResolvesToEntry DEF Merge
<1>2. d1 \in Entries BY <1>1, GrownType
<1>3. d2 \in Entries BY <1>1 DEF Entries, Statuses
<1>4. table' = [table EXCEPT ![i1] = d1, ![i2].status = "freed"] /\ i1 # i2
      BY DEF Merge
<1>5. /\ CanBeFreed(table[i1]) /\ CanBeFreed(table[i2])
      /\ table[i1].split # "unsplit" /\ table[i2].split # "unsplit"
      /\ table[i1].blk = table[i2].blk
      /\ Adjacent(table[i1], table[i2])
      /\ InOrder => table[i2].split # "split_first"
      BY DEF Merge, IsUsable, CanBeFreed
<1> HIDE DEF i1, i2, d1
<1>6. /\ t \in Seq(Entries) /\ Len(t) = Len(table)
      /\ \A i \in 1..Len(table) : t[i] = IF i = i1 THEN d1 ELSE table[i]
      BY <1>0, <1>1, <1>2, ExceptSeq
<1>7. table' = [t EXCEPT ![i2] = d2]
  <2>1. t[i2] = table[i2] BY <1>1, <1>4, <1>6
  <2> QED BY <1>4, <2>1
<1> HIDE DEF t, d2
<1>8. /\ Len(table') = Len(table)
      /\ \A i \in 1..Len(table) : table'[i] = IF i = i2 THEN d2 ELSE t[i]
      BY <1>1, <1>3, <1>6, <1>7, ExceptSeq
<1>9. \A i \in 1..Len(table) : table'[i] = IF i = i1 THEN d1
                                           ELSE IF i = i2 THEN [table[i] EXCEPT !.status = "freed"]
                                           ELSE table[i]
      BY <1>4, <1>6, <1>8 DEF d2
<1> QED BY <1>1, <1>4, <1>5, <1>8, <1>9 DEF i1, i2, d1

(* What the table is after entries have been freed and the end trimmed.      *)
LEMMA TrimShape ==
    ASSUME TypeOK, NEW slots, RemoveFreed(MarkFreed(slots))
    PROVE  /\ Len(table') \in Nat /\ Len(table') <= Len(table)
           /\ \A i \in 1..Len(table') :
                 table'[i] = IF i \in slots THEN [table[i] EXCEPT !.status = "freed"] ELSE table[i]
           /\ \A i \in Len(table') + 1..Len(table) : i \in slots \/ ~CanBeFreed(table[i])
<1> DEFINE t == MarkFreed(slots)
<1>1. /\ t \in Seq(Entries) /\ Len(t) = Len(table) /\ Len(t) \in Nat
      /\ \A i \in 1..Len(table) :
            t[i] = IF i \in slots THEN [table[i] EXCEPT !.status = "freed"] ELSE table[i]
      BY Types, MarkFreedShape
<1>2. PICK n \in 0..Len(t) :
        /\ table' = SubSeq(t, 1, n)
        /\ \A i \in n + 1..Len(t) : ~CanBeFreed(t[i])
      BY DEF RemoveFreed
<1> HIDE DEF t
<1>3. Len(table') = n /\ \A i \in 1..n : table'[i] = t[i] BY <1>1, <1>2
<1>4. ASSUME NEW i \in n + 1..Len(table) PROVE i \in slots \/ ~CanBeFreed(table[i])
  <2>1. i \in 1..Len(table) /\ ~CanBeFreed(t[i]) BY <1>1, <1>2
  <2> QED BY <1>1, <2>1
<1>5. ASSUME NEW i \in 1..n
      PROVE  table'[i] = IF i \in slots THEN [table[i] EXCEPT !.status = "freed"] ELSE table[i]
  <2>1. i \in 1..Len(table) BY <1>1, <1>2
  <2> QED BY <1>1, <1>3, <2>1
<1> QED BY <1>1, <1>2, <1>3, <1>4, <1>5

(* So what is left is as it was but for the status.                          *)
LEMMA TrimForm ==
    ASSUME TypeOK, NEW slots, RemoveFreed(MarkFreed(slots))
    PROVE  /\ Len(table') \in Nat /\ Len(table') <= Len(table)
           /\ \A i \in 1..Len(table') : i \in 1..Len(table) /\ SameForm(table'[i], table[i])
<1>1. /\ Len(table') \in Nat /\ Len(table') <= Len(table)
      /\ \A i \in 1..Len(table') :
            table'[i] = IF i \in slots THEN [table[i] EXCEPT !.status = "freed"] ELSE table[i]
      BY TrimShape
<1>2. ASSUME NEW i \in 1..Len(table') PROVE i \in 1..Len(table) /\ SameForm(table'[i], table[i])
  <2>0. Len(table) \in Nat BY Types
  <2>1. i \in 1..Len(table) BY <1>1, <2>0
  <2>2. table[i] \in Entries BY <2>1, Types
  <2>3. table'[i] \in {table[i], [table[i] EXCEPT !.status = "freed"]} BY <1>1
  <2> QED BY <2>1, <2>2, <2>3 DEF SameForm, Entries
<1> QED BY <1>1, <1>2

-----------------------------------------------------------------------------
(* Frames, handles and their entries, of programs that merge a local variable *)
(* again before its frame ends: an operation that panics at a split one       *)
(* leaves frames whose entries are freed already.                             *)

(* No function returns, and no fiber is destroyed, with a split local: what   *)
(* has been split cannot be freed until it has been merged again (memory.h).  *)
LocalsWhole ==
    \A f \in Fibers :
        /\ ReturnFree(f) => SplitLocals(f) = {}
        /\ DestroyFiber(f) => \A p \in Visited(f) : table[p[2]].split = "unsplit"

(* The program does not split local variables, or merges them in order, and   *)
(* before their frame ends.                                                   *)
LocalsMerged == "local" \notin SplitSources \/ (InOrder /\ [][LocalsWhole]_vars)

(* An entry that begins its block: nobody frees it to merge it with another.  *)
IsHead(e) == e.split \in {"unsplit", "split_first"}

(* The entry of a local variable whose frame has not returned.                *)
HoldsLocal(e, fr, i) ==
    /\ e.src = "local"
    /\ e.blk = LocalBlock(fr, i)
    /\ e.gen = fr.gen
    /\ e.off = 0
    /\ IsHead(e)
    /\ CanBeFreed(e)

FramesPlaced(t, fs) ==
    \A f \in Fibers : \A d \in 1..Len(fs[f].frames) : \A i \in FrameLocals(fs[f].frames[d]) :
        i \in 1..Len(t) /\ HoldsLocal(t[i], fs[f].frames[d], i)

FramesApart(fs) ==
    \A f \in Fibers : \A d \in 1..Len(fs[f].frames) : \A i \in FrameLocals(fs[f].frames[d]) :
        \A g \in Fibers : \A c \in 1..Len(fs[g].frames) :
            i \in FrameLocals(fs[g].frames[c]) => f = g /\ c = d

IsHandle(t, i) == i \in 1..Len(t) /\ t[i].src = "fiber" /\ CanBeFreed(t[i])

HandlesHeld(t, fs) ==
    /\ \A f \in Fibers : fs[f].status = "absent" => fs[f] = Absent
    /\ \A f \in Fibers : fs[f].status # "absent" => IsHandle(t, fs[f].handle)
    /\ \A f, g \in Fibers : f # g /\ fs[f].status # "absent" /\ fs[g].status # "absent"
                            => fs[f].handle # fs[g].handle
    /\ \A i \in 1..Len(t) : IsHandle(t, i) =>
          \E f \in Fibers : fs[f].status # "absent" /\ fs[f].handle = i

(* Every local variable belongs to a frame.                                  *)
LocalsOwned(t, fs) ==
    \A i \in 1..Len(t) : t[i].src = "local" /\ IsHead(t[i]) /\ CanBeFreed(t[i]) =>
        \E f \in Fibers : \E d \in 1..Len(fs[f].frames) : i \in FrameLocals(fs[f].frames[d])

(* No operation of the program touches the entry of a fiber, or splits that  *)
(* of a local variable if the program splits none.                           *)
Untouched(t) ==
    \A i \in 1..Len(t) :
        /\ t[i].src = "fiber" => t[i].split = "unsplit" /\ t[i].status \in {"poison", "freed"}
        /\ t[i].src = "local" /\ "local" \notin SplitSources => t[i].split = "unsplit"

InPlace(t, fs) ==
    /\ FramesPlaced(t, fs)
    /\ FramesApart(fs)
    /\ HandlesHeld(t, fs)
    /\ Untouched(t)
    /\ ~CollectFibers => LocalsOwned(t, fs)

(* What the operations on other entries, and splits, leave as it is.         *)
Keeps(d, e) ==
    /\ d.src = e.src
    /\ e.src = "fiber" => d = e
    /\ e.src = "local" => /\ d.blk = e.blk /\ d.gen = e.gen /\ d.off = e.off
                          /\ IsHead(d) <=> IsHead(e)
                          /\ IsHead(e) => (CanBeFreed(d) <=> CanBeFreed(e))
                          /\ "local" \notin SplitSources => d.split = e.split

(* An entry that is neither of a fiber nor the beginning of a local variable. *)
Other(e) == e.src # "fiber" /\ (e.src = "local" => ~IsHead(e) /\ "local" \in SplitSources)

(* What the frames of two fibers, or of one, have to do with each other.     *)
LEMMA ApartAt ==
    ASSUME NEW fs, FramesApart(fs), NEW f \in Fibers, NEW g \in Fibers,
           NEW d \in 1..Len(fs[f].frames), NEW c \in 1..Len(fs[g].frames),
           NEW i, i \in FrameLocals(fs[f].frames[d]), i \in FrameLocals(fs[g].frames[c])
    PROVE  f = g /\ c = d
BY DEF FramesApart

(* The entry of a local variable of a frame, and what it says.               *)
LEMMA PlacedAt ==
    ASSUME NEW t, NEW fs, FramesPlaced(t, fs), NEW f \in Fibers, NEW d \in 1..Len(fs[f].frames),
           NEW i \in FrameLocals(fs[f].frames[d])
    PROVE  i \in 1..Len(t) /\ HoldsLocal(t[i], fs[f].frames[d], i)
BY DEF FramesPlaced

(* Frames that are popped leave the others apart.                            *)
LEMMA FewerApart ==
    ASSUME NEW fs, NEW gs, FramesApart(fs),
           \A f \in Fibers : \A d \in 1..Len(gs[f].frames) :
              d \in 1..Len(fs[f].frames) /\ gs[f].frames[d] = fs[f].frames[d]
    PROVE  FramesApart(gs)
<1> SUFFICES ASSUME NEW f \in Fibers, NEW d \in 1..Len(gs[f].frames),
                    NEW i \in FrameLocals(gs[f].frames[d]),
                    NEW g \in Fibers, NEW c \in 1..Len(gs[g].frames),
                    i \in FrameLocals(gs[g].frames[c])
             PROVE  f = g /\ c = d
    BY DEF FramesApart
<1>1. d \in 1..Len(fs[f].frames) /\ gs[f].frames[d] = fs[f].frames[d] OBVIOUS
<1>2. c \in 1..Len(fs[g].frames) /\ gs[g].frames[c] = fs[g].frames[c] OBVIOUS
<1>3. i \in FrameLocals(fs[f].frames[d]) /\ i \in FrameLocals(fs[g].frames[c]) BY <1>1, <1>2
<1> HIDE DEF FrameLocals
<1> QED BY <1>1, <1>2, <1>3 DEF FramesApart

(* A step that does not free locals or fibers, and adds none.                *)
LEMMA KeptInPlace ==
    ASSUME NEW t, NEW u, NEW fs, InPlace(t, fs),
           Len(t) \in Nat, Len(u) \in Nat, Len(u) >= Len(t),
           \A i \in 1..Len(t) : Keeps(u[i], t[i]),
           \A i \in Len(t) + 1..Len(u) : Other(u[i])
    PROVE  InPlace(u, fs)
<1>1. 1..Len(t) \subseteq 1..Len(u) OBVIOUS
<1>2. ASSUME NEW i \in 1..Len(u), ~Other(u[i]) PROVE i \in 1..Len(t)
  BY <1>2
<1>3. FramesPlaced(u, fs) BY <1>1 DEF InPlace, FramesPlaced, HoldsLocal, Keeps
<1>4. HandlesHeld(u, fs)
  <2>1. \A i : IsHandle(u, i) <=> IsHandle(t, i) BY <1>1, <1>2 DEF IsHandle, Keeps, Other
  <2>2. ASSUME NEW i \in 1..Len(u), IsHandle(u, i)
        PROVE  \E f \in Fibers : fs[f].status # "absent" /\ fs[f].handle = i
    <3>1. i \in 1..Len(t) /\ IsHandle(t, i) BY <2>1, <2>2 DEF IsHandle
    <3> QED BY <3>1 DEF InPlace, HandlesHeld
  <2> QED BY <2>1, <2>2 DEF InPlace, HandlesHeld
<1>5. Untouched(u) BY <1>2 DEF InPlace, Untouched, Keeps, Other
<1>6. ~CollectFibers => LocalsOwned(u, fs) BY <1>2 DEF InPlace, LocalsOwned, Keeps, Other
<1> QED BY <1>3, <1>4, <1>5, <1>6 DEF InPlace

(* A fiber's entry is appended, and the fiber has no frames yet.             *)
LEMMA CreatedInPlace ==
    ASSUME NEW t, NEW u, NEW fs, NEW gs, InPlace(t, fs), NEW f \in Fibers,
           Len(t) \in Nat, Len(u) = Len(t) + 1, \A i \in 1..Len(t) : u[i] = t[i],
           u[Len(t) + 1].src = "fiber", u[Len(t) + 1].status = "poison", u[Len(t) + 1].split = "unsplit",
           fs[f].status = "absent",
           gs[f].status # "absent", gs[f].handle = Len(t) + 1, gs[f].frames = <<>>,
           \A g \in Fibers \ {f} : gs[g] = fs[g]
    PROVE  InPlace(u, gs)
<1>0. 1..Len(u) = 1..Len(t) \cup {Len(t) + 1} /\ Len(t) + 1 \notin 1..Len(t) OBVIOUS
<1>1. \A g \in Fibers : gs[g].frames = fs[g].frames
  <2>1. fs[f].frames = <<>> BY DEF InPlace, HandlesHeld, Absent
  <2> QED BY <2>1
<1>2. FramesPlaced(u, gs)
  <2>1. SUFFICES ASSUME NEW g \in Fibers, NEW d \in 1..Len(gs[g].frames),
                        NEW i \in FrameLocals(gs[g].frames[d])
                 PROVE  i \in 1..Len(u) /\ HoldsLocal(u[i], gs[g].frames[d], i)
    BY DEF FramesPlaced
  <2>2. gs[g].frames = fs[g].frames BY <1>1
  <2>3. i \in 1..Len(t) /\ HoldsLocal(t[i], gs[g].frames[d], i) BY <2>2, PlacedAt DEF InPlace
  <2> QED BY <1>0, <2>3
<1>3. FramesApart(gs) BY <1>1, FewerApart DEF InPlace
<1>4. HandlesHeld(u, gs)
  <2>1. \A i : IsHandle(u, i) <=> i = Len(t) + 1 \/ IsHandle(t, i)
        BY <1>0 DEF IsHandle, CanBeFreed
  <2>2. \A i : IsHandle(t, i) => i # Len(t) + 1 BY <1>0 DEF IsHandle
  <2>3. \A g \in Fibers : gs[g].status = "absent" => gs[g] = Absent
        BY DEF InPlace, HandlesHeld
  <2>4. \A g \in Fibers : gs[g].status # "absent" => IsHandle(u, gs[g].handle)
        BY <2>1 DEF InPlace, HandlesHeld
  <2>5. \A g, h \in Fibers : g # h /\ gs[g].status # "absent" /\ gs[h].status # "absent"
                             => gs[g].handle # gs[h].handle
        BY <2>2 DEF InPlace, HandlesHeld
  <2>6. ASSUME NEW i \in 1..Len(u), IsHandle(u, i)
        PROVE  \E g \in Fibers : gs[g].status # "absent" /\ gs[g].handle = i
    <3>1. CASE i = Len(t) + 1 BY <3>1
    <3>2. CASE IsHandle(t, i)
      <4>1. i \in 1..Len(t) BY <3>2 DEF IsHandle
      <4>2. PICK g \in Fibers : fs[g].status # "absent" /\ fs[g].handle = i
            BY <3>2, <4>1 DEF InPlace, HandlesHeld
      <4> QED BY <4>2
    <3> QED BY <2>1, <2>6, <3>1, <3>2
  <2> QED BY <2>3, <2>4, <2>5, <2>6 DEF HandlesHeld
<1>5. Untouched(u) BY <1>0 DEF InPlace, Untouched
<1>6. ~CollectFibers => LocalsOwned(u, gs) BY <1>0, <1>1 DEF InPlace, LocalsOwned
<1> QED BY <1>2, <1>3, <1>4, <1>5, <1>6 DEF InPlace

(* The entries of a frame's locals are appended, and the frame is pushed.    *)
LEMMA SetUpInPlace ==
    ASSUME NEW t, NEW u, NEW fs, NEW gs, InPlace(t, fs), NEW f \in Fibers, NEW n \in Nat, NEW fr,
           Len(t) \in Nat, Len(u) = Len(t) + n, \A i \in 1..Len(t) : u[i] = t[i],
           FrameLocals(fr) = Len(t) + 1..Len(t) + n,
           \A i \in Len(t) + 1..Len(t) + n : HoldsLocal(u[i], fr, i),
           \A i \in Len(t) + 1..Len(t) + n : u[i].split = "unsplit",
           fs[f].status # "absent",
           fs[f].frames \in Seq(Frames),
           fr \in Frames,
           gs[f].status = fs[f].status, gs[f].handle = fs[f].handle,
           gs[f].frames = Append(fs[f].frames, fr),
           \A g \in Fibers \ {f} : gs[g] = fs[g]
    PROVE  InPlace(u, gs)
<1> DEFINE N == Len(fs[f].frames)
<1>0. 1..Len(t) \subseteq 1..Len(u) OBVIOUS
<1>1. /\ N \in Nat /\ Len(gs[f].frames) = N + 1
      /\ \A d \in 1..N : gs[f].frames[d] = fs[f].frames[d]
      /\ gs[f].frames[N + 1] = fr
      BY AppendProperties
<1> HIDE DEF N
<1>2. ASSUME NEW g \in Fibers, NEW d \in 1..Len(gs[g].frames)
      PROVE  \/ g = f /\ d = N + 1 /\ gs[g].frames[d] = fr
             \/ /\ d \in 1..Len(fs[g].frames)
                /\ gs[g].frames[d] = fs[g].frames[d]
                /\ \A i \in FrameLocals(gs[g].frames[d]) : i \in 1..Len(t)
  <2>1. ASSUME d \in 1..Len(fs[g].frames), gs[g].frames[d] = fs[g].frames[d]
        PROVE  \A i \in FrameLocals(gs[g].frames[d]) : i \in 1..Len(t)
    BY <2>1 DEF InPlace, FramesPlaced
  <2>2. CASE g = f
    <3>1. d = N + 1 \/ d \in 1..N BY <1>1, <2>2
    <3> QED BY <1>1, <2>1, <2>2, <3>1 DEF N
  <2>3. CASE g # f BY <2>1, <2>3
  <2> QED BY <2>2, <2>3
<1>3. FramesPlaced(u, gs)
  <2>1. SUFFICES ASSUME NEW g \in Fibers, NEW d \in 1..Len(gs[g].frames),
                        NEW i \in FrameLocals(gs[g].frames[d])
                 PROVE  i \in 1..Len(u) /\ HoldsLocal(u[i], gs[g].frames[d], i)
    BY DEF FramesPlaced
  <2>2. CASE gs[g].frames[d] = fr BY <2>2
  <2>3. CASE d \in 1..Len(fs[g].frames) /\ gs[g].frames[d] = fs[g].frames[d]
    BY <1>0, <2>3 DEF InPlace, FramesPlaced
  <2> QED BY <1>2, <2>2, <2>3
<1>4. FramesApart(gs)
  <2>1. SUFFICES ASSUME NEW g \in Fibers, NEW d \in 1..Len(gs[g].frames),
                        NEW i \in FrameLocals(gs[g].frames[d]),
                        NEW h \in Fibers, NEW c \in 1..Len(gs[h].frames),
                        i \in FrameLocals(gs[h].frames[c])
                 PROVE  g = h /\ c = d
    BY DEF FramesApart
  <2>2. CASE i \in 1..Len(t)
    <3>1. i \notin FrameLocals(fr) BY <2>2
    <3>2. /\ d \in 1..Len(fs[g].frames) /\ gs[g].frames[d] = fs[g].frames[d]
          /\ c \in 1..Len(fs[h].frames) /\ gs[h].frames[c] = fs[h].frames[c]
          BY <1>2, <2>1, <3>1
    <3>3. i \in FrameLocals(fs[g].frames[d]) /\ i \in FrameLocals(fs[h].frames[c]) BY <2>1, <3>2
    <3>4. FramesApart(fs) BY DEF InPlace
    <3> QED BY <3>2, <3>3, <3>4, ApartAt
  <2>3. CASE i \notin 1..Len(t)
    <3>1. g = f /\ d = N + 1 BY <1>2, <2>3
    <3>2. h = f /\ c = N + 1 BY <1>2, <2>1, <2>3
    <3> QED BY <3>1, <3>2
  <2> QED BY <2>2, <2>3
<1>5. HandlesHeld(u, gs)
  <2>0. \A i \in 1..Len(u) : i \notin 1..Len(t) => u[i].src = "local"
        BY DEF HoldsLocal
  <2>1. \A i : IsHandle(u, i) <=> IsHandle(t, i) BY <1>0, <2>0 DEF IsHandle
  <2>2. \A g \in Fibers : gs[g].status = fs[g].status /\ gs[g].handle = fs[g].handle OBVIOUS
  <2>3. \A g \in Fibers : gs[g].status = "absent" => gs[g] = Absent
        BY DEF InPlace, HandlesHeld
  <2>4. ASSUME NEW i \in 1..Len(u), IsHandle(u, i)
        PROVE  \E g \in Fibers : gs[g].status # "absent" /\ gs[g].handle = i
    <3>1. i \in 1..Len(t) /\ IsHandle(t, i) BY <2>1, <2>4 DEF IsHandle
    <3> QED BY <2>2, <3>1 DEF InPlace, HandlesHeld
  <2>5. \A g \in Fibers : gs[g].status # "absent" => IsHandle(u, gs[g].handle)
        BY <2>1, <2>2 DEF InPlace, HandlesHeld
  <2>6. \A g, h \in Fibers : g # h /\ gs[g].status # "absent" /\ gs[h].status # "absent"
                             => gs[g].handle # gs[h].handle
        BY <2>2 DEF InPlace, HandlesHeld
  <2> QED BY <2>3, <2>4, <2>5, <2>6 DEF HandlesHeld
<1>6. Untouched(u)
  <2>1. SUFFICES ASSUME NEW i \in 1..Len(u)
                 PROVE  /\ u[i].src = "fiber" => /\ u[i].split = "unsplit"
                                                 /\ u[i].status \in {"poison", "freed"}
                        /\ u[i].src = "local" /\ "local" \notin SplitSources
                           => u[i].split = "unsplit"
    BY DEF Untouched
  <2>2. CASE i \in 1..Len(t)
    <3>1. u[i] = t[i] BY <2>2
    <3> QED BY <2>2, <3>1 DEF InPlace, Untouched
  <2>3. CASE i \in Len(t) + 1..Len(t) + n
    <3>1. u[i].src = "local" /\ u[i].split = "unsplit" BY <2>3 DEF HoldsLocal
    <3> QED BY <3>1
  <2>4. i \in 1..Len(t) \/ i \in Len(t) + 1..Len(t) + n OBVIOUS
  <2> QED BY <2>2, <2>3, <2>4
<1>7. ASSUME ~CollectFibers PROVE LocalsOwned(u, gs)
  <2>1. SUFFICES ASSUME NEW i \in 1..Len(u), u[i].src = "local", IsHead(u[i]), CanBeFreed(u[i])
                 PROVE  \E g \in Fibers : \E d \in 1..Len(gs[g].frames) : i \in FrameLocals(gs[g].frames[d])
    BY DEF LocalsOwned
  <2>2. CASE i \in 1..Len(t)
    <3>1. PICK g \in Fibers : \E d \in 1..Len(fs[g].frames) : i \in FrameLocals(fs[g].frames[d])
          BY <1>7, <2>1, <2>2 DEF InPlace, LocalsOwned
    <3>2. PICK d \in 1..Len(fs[g].frames) : i \in FrameLocals(fs[g].frames[d]) BY <3>1
    <3>3. d \in 1..Len(gs[g].frames) /\ gs[g].frames[d] = fs[g].frames[d]
      <4>1. CASE g = f
        <5>1. d \in 1..N BY <4>1 DEF N
        <5>2. d \in 1..N + 1 BY <1>1, <5>1
        <5> QED BY <1>1, <4>1, <5>1, <5>2
      <4>2. CASE g # f BY <4>2
      <4> QED BY <4>1, <4>2
    <3> QED BY <3>2, <3>3
  <2>3. CASE i \in Len(t) + 1..Len(t) + n
    <3>1. N + 1 \in 1..Len(gs[f].frames) BY <1>1
    <3> QED BY <1>1, <2>3, <3>1
  <2> QED BY <2>2, <2>3
<1> QED BY <1>3, <1>4, <1>5, <1>6, <1>7 DEF InPlace

(* The entries of some frames and fibers are freed with them, and those at   *)
(* the end of the table may be popped.                                       *)
Drops(t, u, fs, gs, slots) ==
    /\ Len(t) \in Nat /\ Len(u) \in Nat /\ Len(u) <= Len(t)
    /\ \A i \in 1..Len(t) : t[i] \in Entries
    /\ \A i \in 1..Len(u) : u[i] = IF i \in slots THEN [t[i] EXCEPT !.status = "freed"] ELSE t[i]
    /\ \A i \in Len(u) + 1..Len(t) : i \in slots \/ ~CanBeFreed(t[i])
    /\ \A g \in Fibers :
         \/ gs[g] = Absent /\ (fs[g].status # "absent" => fs[g].handle \in slots)
         \/ /\ gs[g].status = fs[g].status
            /\ gs[g].handle = fs[g].handle
            /\ fs[g].status # "absent" => fs[g].handle \notin slots
            /\ fs[g].status = "absent" => gs[g] = fs[g]
    /\ \A g \in Fibers : \A d \in 1..Len(gs[g].frames) :
         /\ d \in 1..Len(fs[g].frames)
         /\ gs[g].frames[d] = fs[g].frames[d]
         /\ FrameLocals(fs[g].frames[d]) \cap slots = {}
    /\ ~CollectFibers =>
         \A g \in Fibers : \A d \in 1..Len(fs[g].frames) :
            d \in 1..Len(gs[g].frames) \/ FrameLocals(fs[g].frames[d]) \subseteq slots

(* What whole frames and handles leave behind is in place.                   *)
LEMMA DroppedInPlace ==
    ASSUME NEW t, NEW u, NEW fs, NEW gs, InPlace(t, fs), NEW slots, Drops(t, u, fs, gs, slots)
    PROVE  InPlace(u, gs)
<1> USE DEF Drops
<1>0. 1..Len(u) \subseteq 1..Len(t) /\ \A i \in 1..Len(t) : i \in 1..Len(u) \/ i \in Len(u) + 1..Len(t)
      OBVIOUS
<1>1. \A i \in 1..Len(t) : i \notin slots /\ CanBeFreed(t[i]) => i \in 1..Len(u) /\ u[i] = t[i]
      BY <1>0
<1>2. ASSUME NEW i \in 1..Len(u)
      PROVE  /\ u[i].src = t[i].src /\ u[i].split = t[i].split
             /\ u[i].status \in {t[i].status, "freed"}
             /\ CanBeFreed(u[i]) <=> i \notin slots /\ CanBeFreed(t[i])
  <2>1. t[i] \in Entries BY <1>0
  <2>2. CASE i \in slots
    <3>1. u[i] = [t[i] EXCEPT !.status = "freed"] BY <2>2
    <3> QED BY <2>1, <2>2, <3>1 DEF Entries, CanBeFreed
  <2>3. CASE i \notin slots BY <2>3
  <2> QED BY <2>2, <2>3
<1>3. FramesPlaced(u, gs)
  <2>1. SUFFICES ASSUME NEW g \in Fibers, NEW d \in 1..Len(gs[g].frames),
                        NEW i \in FrameLocals(gs[g].frames[d])
                 PROVE  i \in 1..Len(u) /\ HoldsLocal(u[i], gs[g].frames[d], i)
    BY DEF FramesPlaced
  <2>2. /\ d \in 1..Len(fs[g].frames) /\ gs[g].frames[d] = fs[g].frames[d]
        /\ i \notin slots
        OBVIOUS
  <2>3. i \in 1..Len(t) /\ HoldsLocal(t[i], gs[g].frames[d], i) BY <2>2 DEF InPlace, FramesPlaced
  <2> QED BY <1>1, <2>2, <2>3 DEF HoldsLocal
<1>4. FramesApart(gs)
  <2>1. FramesApart(fs) BY DEF InPlace
  <2> QED BY <2>1, FewerApart
<1>5. HandlesHeld(u, gs)
  <2>1. \A i : IsHandle(u, i) <=> IsHandle(t, i) /\ i \notin slots
        BY <1>0, <1>1, <1>2 DEF IsHandle
  <2>2. ASSUME NEW g \in Fibers, gs[g].status = "absent" PROVE gs[g] = Absent
    BY <2>2 DEF InPlace, HandlesHeld
  <2>3. ASSUME NEW g \in Fibers, gs[g].status # "absent"
        PROVE  /\ fs[g].status # "absent" /\ gs[g].handle = fs[g].handle
               /\ fs[g].handle \notin slots
    BY <2>3 DEF Absent
  <2>4. \A g \in Fibers : gs[g].status # "absent" => IsHandle(u, gs[g].handle)
        BY <2>1, <2>3 DEF InPlace, HandlesHeld
  <2>5. \A g, h \in Fibers : g # h /\ gs[g].status # "absent" /\ gs[h].status # "absent"
                             => gs[g].handle # gs[h].handle
        BY <2>3 DEF InPlace, HandlesHeld
  <2>6. ASSUME NEW i \in 1..Len(u), IsHandle(u, i)
        PROVE  \E g \in Fibers : gs[g].status # "absent" /\ gs[g].handle = i
    <3>1. i \in 1..Len(t) /\ IsHandle(t, i) /\ i \notin slots BY <1>0, <2>1, <2>6
    <3>2. PICK g \in Fibers : fs[g].status # "absent" /\ fs[g].handle = i
          BY <3>1 DEF InPlace, HandlesHeld
    <3>3. gs[g].status = fs[g].status /\ gs[g].handle = fs[g].handle BY <3>1, <3>2
    <3> QED BY <3>2, <3>3
  <2> QED BY <2>2, <2>4, <2>5, <2>6 DEF HandlesHeld
<1>6. Untouched(u)
  <2>1. SUFFICES ASSUME NEW i \in 1..Len(u)
                 PROVE  /\ u[i].src = "fiber" => /\ u[i].split = "unsplit"
                                                 /\ u[i].status \in {"poison", "freed"}
                        /\ u[i].src = "local" /\ "local" \notin SplitSources
                           => u[i].split = "unsplit"
    BY DEF Untouched
  <2>2. i \in 1..Len(t) BY <1>0
  <2> QED BY <1>2, <2>2 DEF InPlace, Untouched
<1>7. ASSUME ~CollectFibers PROVE LocalsOwned(u, gs)
  <2>1. SUFFICES ASSUME NEW i \in 1..Len(u), u[i].src = "local", IsHead(u[i]), CanBeFreed(u[i])
                 PROVE  \E g \in Fibers : \E d \in 1..Len(gs[g].frames) : i \in FrameLocals(gs[g].frames[d])
    BY DEF LocalsOwned
  <2>2. /\ i \in 1..Len(t) /\ t[i].src = "local" /\ IsHead(t[i])
        /\ CanBeFreed(t[i]) /\ i \notin slots
        BY <1>0, <1>2, <2>1 DEF IsHead
  <2>3. PICK g \in Fibers : \E d \in 1..Len(fs[g].frames) : i \in FrameLocals(fs[g].frames[d])
        BY <1>7, <2>2 DEF InPlace, LocalsOwned
  <2>4. PICK d \in 1..Len(fs[g].frames) : i \in FrameLocals(fs[g].frames[d]) BY <2>3
  <2>5. d \in 1..Len(gs[g].frames) /\ gs[g].frames[d] = fs[g].frames[d] BY <1>7, <2>2, <2>4
  <2> QED BY <2>4, <2>5
<1> QED BY <1>3, <1>4, <1>5, <1>6, <1>7 DEF InPlace

(* The inductive invariant of frames and handles.                            *)
PlacedInv ==
    /\ InPlace(table, fibers)
    /\ calling # Idle => fibers[calling.fiber].status # "absent"
    /\ fault # "assertion"

(* A table that a step leaves, or appends static and heap entries to.        *)
LEMMA AppendKeeps ==
    ASSUME TypeOK, NEW e \in Entries, InPlace(table, fibers), e.src \notin {"local", "fiber"}
    PROVE  InPlace(Append(table, e), fibers)
<1> DEFINE u == Append(table, e)
<1>1. table \in Seq(Entries) /\ Len(table) \in Nat BY Types
<1>2. Len(u) = Len(table) + 1 /\ \A i \in 1..Len(table) : u[i] = table[i] BY <1>1
<1>3. u[Len(table) + 1] = e BY <1>1
<1> HIDE DEF u
<1>4. Len(table) + 1..Len(u) = {Len(table) + 1} BY <1>1, <1>2
<1>5. \A i \in 1..Len(table) : Keeps(u[i], table[i]) BY <1>2 DEF Keeps
<1>6. \A i \in Len(table) + 1..Len(u) : Other(u[i]) BY <1>3, <1>4 DEF Other
<1>7. Len(u) \in Nat /\ Len(u) >= Len(table) BY <1>1, <1>2
<1>8. InPlace(u, fibers) BY <1>1, <1>5, <1>6, <1>7, KeptInPlace
<1> QED BY <1>8 DEF u

(* A step that adds no entry.                                                *)
LEMMA TouchKeeps ==
    ASSUME TypeOK, NEW u, InPlace(table, fibers), Len(u) = Len(table),
           \A i \in 1..Len(table) : Keeps(u[i], table[i])
    PROVE  InPlace(u, fibers)
<1>1. Len(table) \in Nat BY Types
<1>2. Len(u) \in Nat /\ Len(u) >= Len(table) /\ Len(table) + 1..Len(u) = {} BY <1>1
<1> QED BY <1>1, <1>2, KeptInPlace

(* poison and unpoison leave the entries of fibers alone.                    *)
LEMMA PoisonPlaced ==
    ASSUME TypeOK, InPlace(table, fibers), NEW a \in Addresses, Poison(a) \/ Unpoison(a)
    PROVE  InPlace(table', fibers)
<1> DEFINE u == table'
<1>1. /\ Len(u) = Len(table)
      /\ \A i \in 1..Len(table) :
            /\ SameForm(u[i], table[i])
            /\ CanBeFreed(u[i]) <=> CanBeFreed(table[i])
            /\ table[i].src = "fiber" => u[i] = table[i]
      BY PoisonTable
<1> HIDE DEF u
<1>2. \A i \in 1..Len(table) : Keeps(u[i], table[i]) BY <1>1 DEF Keeps, SameForm, IsHead
<1>3. InPlace(u, fibers) BY <1>1, <1>2, TouchKeeps
<1> QED BY <1>3 DEF u

(* A split is not of a fiber, and leaves the beginning of a local variable.  *)
LEMMA SplitPlaced ==
    ASSUME TypeOK, InPlace(table, fibers),
           NEW a \in Addresses, NEW offset \in SplitOffsets, NEW moved \in BOOLEAN,
           Split(a, offset, moved)
    PROVE  InPlace(table', fibers)
<1> DEFINE u == table'
           k == a.slot
           h == HeadPiece(table[k], offset)
           p == TailPiece(table[k], offset)
<1>1. /\ k \in 1..Len(table) /\ table[k] \in Entries
      /\ Len(u) = Len(table) + 1
      /\ \A i \in 1..Len(table) : u[i] = IF i = k /\ ~moved THEN h ELSE table[i]
      /\ u[Len(table) + 1] = p
      BY SplitTable
<1>2. table[k].src # "fiber" /\ table[k].src \in SplitSources
      BY MemoryAssumption DEF MemoryAssumption, Split
<1>3. Keeps(h, table[k])
  <2>1. /\ h.src = table[k].src /\ h.blk = table[k].blk /\ h.gen = table[k].gen
        /\ h.off = table[k].off /\ h.status = table[k].status
        /\ h.split = IF table[k].split \in {"unsplit", "split_first"}
                     THEN "split_first" ELSE "split_middle"
        BY <1>1 DEF HeadPiece, Entries
  <2> HIDE DEF h
  <2> QED BY <1>2, <2>1 DEF Keeps, IsHead, CanBeFreed
<1>4. Other(p)
  <2>1. /\ p.src = table[k].src
        /\ p.split = IF table[k].split \in {"unsplit", "split_last"}
                     THEN "split_last" ELSE "split_middle"
        BY <1>1 DEF TailPiece, Entries
  <2> HIDE DEF p
  <2> QED BY <1>2, <2>1 DEF Other, IsHead
<1>5. Len(table) \in Nat BY Types
<1> HIDE DEF u, k, h, p
<1>6. \A i \in 1..Len(table) : Keeps(u[i], table[i])
  <2>1. \A i \in 1..Len(table) : Keeps(table[i], table[i]) BY DEF Keeps
  <2> QED BY <1>1, <1>3, <2>1
<1>7. \A i \in Len(table) + 1..Len(u) : Other(u[i])
  <2>1. Len(table) + 1..Len(u) = {Len(table) + 1} BY <1>1, <1>5
  <2> QED BY <1>1, <1>4, <2>1
<1>8. Len(u) \in Nat /\ Len(u) >= Len(table) BY <1>1, <1>5
<1>9. InPlace(u, fibers) BY <1>5, <1>6, <1>7, <1>8, KeptInPlace
<1> QED BY <1>9 DEF u

(* The piece that a merge frees does not begin a local variable.             *)
LEMMA MergePlaced ==
    ASSUME TypeOK, InPlace(table, fibers), "local" \notin SplitSources \/ InOrder,
           NEW a1 \in Addresses, NEW a2 \in Addresses, Merge(a1, a2)
    PROVE  InPlace(table', fibers)
<1> DEFINE u == table'
           i1 == a1.slot
           i2 == a2.slot
           d1 == Grown(table[i1], table[i2])
           d2 == [table[i2] EXCEPT !.status = "freed"]
<1>1. /\ i1 \in 1..Len(table) /\ table[i1] \in Entries
      /\ i2 \in 1..Len(table) /\ table[i2] \in Entries
      /\ table[i1].split # "unsplit" /\ table[i2].split # "unsplit"
      /\ CanBeFreed(table[i1])
      /\ InOrder => table[i2].split # "split_first"
      /\ Len(u) = Len(table)
      /\ \A i \in 1..Len(table) :
            u[i] = IF i = i1 THEN d1
                   ELSE IF i = i2 THEN [table[i] EXCEPT !.status = "freed"]
                   ELSE table[i]
      BY MergeTable
<1>2. ASSUME NEW i \in {i1, i2}
      PROVE  table[i].src # "fiber" /\ (table[i].src = "local" => "local" \in SplitSources)
  BY <1>1 DEF InPlace, Untouched
<1>3. Keeps(d1, table[i1])
  <2>1. /\ d1.src = table[i1].src /\ d1.blk = table[i1].blk /\ d1.gen = table[i1].gen
        /\ d1.off = table[i1].off /\ d1.status = table[i1].status
        /\ d1.split = IF table[i2].split # "split_last" THEN table[i1].split
                      ELSE IF table[i1].split = "split_first" THEN "unsplit" ELSE "split_last"
        BY <1>1 DEF Grown, Entries
  <2> HIDE DEF d1
  <2> QED BY <1>1, <1>2, <2>1 DEF Keeps, IsHead, CanBeFreed
<1>4. Keeps(d2, table[i2])
  <2>1. /\ d2.src = table[i2].src /\ d2.blk = table[i2].blk /\ d2.gen = table[i2].gen
        /\ d2.off = table[i2].off /\ d2.split = table[i2].split
        BY <1>1 DEF Entries
  <2>2. table[i2].src = "local" => ~IsHead(table[i2]) BY <1>1, <1>2 DEF IsHead
  <2> HIDE DEF d2
  <2> QED BY <1>2, <2>1, <2>2 DEF Keeps, IsHead
<1>5. \A i \in 1..Len(table) : u[i] = IF i = i1 THEN d1 ELSE IF i = i2 THEN d2 ELSE table[i]
      BY <1>1
<1> HIDE DEF u, i1, i2, d1, d2
<1>6. \A i \in 1..Len(table) : Keeps(u[i], table[i])
  <2>1. \A i \in 1..Len(table) : Keeps(table[i], table[i]) BY DEF Keeps
  <2> QED BY <1>3, <1>4, <1>5, <2>1
<1>7. InPlace(u, fibers) BY <1>1, <1>6, TouchKeeps
<1> QED BY <1>7 DEF u

(* free is of heap entries only.                                             *)
LEMMA HeapFreePlaced ==
    ASSUME TypeOK, InPlace(table, fibers), NEW a \in Addresses, HeapFree(a)
    PROVE  InPlace(table', fibers)
<1>1. a.slot \in 1..Len(table) /\ table[a.slot] \in Entries BY ResolvesToEntry DEF HeapFree
<1>2. table[a.slot].src = "heap" BY DEF HeapFree
<1> DEFINE u == MarkFreed({a.slot})
<1>3. table' = u BY DEF HeapFree
<1>4. /\ Len(u) = Len(table)
      /\ \A i \in 1..Len(table) :
            u[i] = IF i \in {a.slot} THEN [table[i] EXCEPT !.status = "freed"] ELSE table[i]
      BY Types, MarkFreedShape
<1> HIDE DEF u
<1>5. \A i \in 1..Len(table) : Keeps(u[i], table[i])
  <2>1. SUFFICES ASSUME NEW i \in 1..Len(table) PROVE Keeps(u[i], table[i])
    OBVIOUS
  <2>2. CASE i = a.slot
    <3>1. u[i] = [table[i] EXCEPT !.status = "freed"] BY <1>4, <2>2
    <3> QED BY <1>1, <1>2, <2>2, <3>1 DEF Keeps, Entries
  <2>3. CASE i # a.slot BY <1>4, <2>3 DEF Keeps
  <2> QED BY <2>2, <2>3
<1> QED BY <1>3, <1>4, <1>5, TouchKeeps

(* A new fiber gets an entry of its own as its handle.                       *)
LEMMA CreatePlaced ==
    ASSUME TypeOK, InPlace(table, fibers), NEW f \in Fibers, CreateFiber(f)
    PROVE  InPlace(table', fibers')
<1> DEFINE e == NewEntry("fiber", "poison", Len(table) + 1, 0, 0)
           u == table'
           gs == fibers'
<1>1. table \in Seq(Entries) /\ Len(table) \in Nat /\ epoch \in Nat
      /\ fibers \in [Fibers -> FiberRecords] BY Types
<1>2. u = Append(table, e) BY DEF CreateFiber, Push
<1>3. e.src = "fiber" /\ e.status = "poison" /\ e.split = "unsplit" BY DEF NewEntry
<1> HIDE DEF e
<1>4. Len(u) = Len(table) + 1 /\ \A i \in 1..Len(table) : u[i] = table[i] BY <1>1, <1>2
<1>5. u[Len(table) + 1] = e BY <1>1, <1>2
<1>6. /\ fibers[f].status = "absent"
      /\ gs = [fibers EXCEPT ![f] = [status |-> "live", handle |-> Len(table) + 1, frames |-> <<>>]]
      BY DEF CreateFiber
<1>7. /\ gs[f].status # "absent" /\ gs[f].handle = Len(table) + 1 /\ gs[f].frames = <<>>
      /\ \A g \in Fibers \ {f} : gs[g] = fibers[g]
      BY <1>1, <1>6
<1> HIDE DEF u, gs
<1>8. /\ u[Len(table) + 1].src = "fiber" /\ u[Len(table) + 1].status = "poison"
      /\ u[Len(table) + 1].split = "unsplit"
      BY <1>3, <1>5
<1>9. fibers[f].status = "absent" /\ Len(table) \in Nat BY <1>1, <1>6
<1>10. InPlace(u, gs) BY <1>4, <1>7, <1>8, <1>9, CreatedInPlace
<1> QED BY <1>10 DEF u, gs

(* A call gives the new frame the entries it appends.                        *)
LEMMA SetUpPlaced ==
    ASSUME TypeOK, InPlace(table, fibers), SetupLocals, fibers[calling.fiber].status # "absent"
    PROVE  InPlace(table', fibers')
<1> DEFINE f == calling.fiber
           n == calling.count
           gen == curGen % AddrGens
           fr == [first |-> Len(table) + 1, count |-> n, gen |-> gen, born |-> epoch]
           u == table'
           gs == fibers'
<1>1. f \in Fibers /\ n \in LocalCounts BY Types DEF SetupLocals
<1>2. /\ table \in Seq(Entries) /\ Len(table) \in Nat /\ epoch \in Nat
      /\ curGen \in 0..Generations - 1 /\ fibers \in [Fibers -> FiberRecords]
      BY Types
<1>3. gen \in 0..AddrGens - 1
  <2>1. curGen \in Nat /\ AddrGens \in Nat \ {0} BY <1>2, MemoryAssumption DEF MemoryAssumption
  <2> QED BY <2>1, LowBitsOfLowBits
<1>4. /\ n \in Nat
      /\ Len(u) = Len(table) + n
      /\ \A i \in 1..Len(table) : u[i] = table[i]
      /\ \A i \in Len(table) + 1..Len(u) :
            u[i] = NewEntry("local", "allocated", i, gen, LocalSize)
      BY SetUpTable
<1>5. gs = [fibers EXCEPT ![f].frames = Append(@, fr)] BY DEF SetupLocals, FirstLocal
<1> HIDE DEF gen, n, f, u
<1>6. fr \in Frames
  <2>1. Len(table) + 1 \in Nat \ {0} BY <1>2
  <2> QED BY <1>1, <1>2, <1>3, <2>1 DEF Frames
<1>7. FrameLocals(fr) = Len(table) + 1..Len(table) + n
  <2>1. fr.first + fr.count - 1 = Len(table) + n BY <1>2, <1>4
  <2> QED BY <2>1 DEF FrameLocals
<1>8. /\ \A i \in Len(table) + 1..Len(table) + n : HoldsLocal(u[i], fr, i)
      /\ \A i \in Len(table) + 1..Len(table) + n : u[i].split = "unsplit"
  <2>1. SUFFICES ASSUME NEW i \in Len(table) + 1..Len(table) + n
                 PROVE  HoldsLocal(u[i], fr, i) /\ u[i].split = "unsplit"
    OBVIOUS
  <2>2. u[i] = NewEntry("local", "allocated", i, gen, LocalSize) BY <1>4, <2>1
  <2> QED BY <2>2 DEF NewEntry, HoldsLocal, LocalBlock, CanBeFreed, IsHead
<1>9. /\ gs[f].status = fibers[f].status /\ gs[f].handle = fibers[f].handle
      /\ gs[f].frames = Append(fibers[f].frames, fr)
      /\ \A g \in Fibers \ {f} : gs[g] = fibers[g]
      BY <1>1, <1>2, <1>5 DEF FiberRecords
<1>10. fibers[f].frames \in Seq(Frames) /\ fibers[f].status # "absent"
      BY <1>1, <1>2 DEF FiberRecords, f
<1> HIDE DEF fr, gs
<1>11. InPlace(u, gs) BY <1>1, <1>2, <1>4, <1>6, <1>7, <1>8, <1>9, <1>10, SetUpInPlace
<1> QED BY <1>11 DEF u, gs

(* A local variable in place is its beginning, and freed by nobody else.     *)
LEMMA LocalInPlace ==
    ASSUME InPlace(table, fibers), NEW f \in Fibers, NEW d \in 1..Len(fibers[f].frames),
           NEW i \in FrameLocals(fibers[f].frames[d])
    PROVE  /\ i \in 1..Len(table)
           /\ HoldsLocal(table[i], fibers[f].frames[d], i)
           /\ "local" \notin SplitSources => table[i].split = "unsplit"
<1>1. FramesPlaced(table, fibers) BY DEF InPlace
<1>2. i \in 1..Len(table) /\ HoldsLocal(table[i], fibers[f].frames[d], i) BY <1>1, PlacedAt
<1>3. Untouched(table) BY DEF InPlace
<1> QED BY <1>2, <1>3 DEF Untouched, HoldsLocal

(* The frame that a return pops.                                             *)
LEMMA FrameOnTop ==
    ASSUME TypeOK, NEW f \in Fibers, ReturnFree(f)
    PROVE  /\ Len(fibers[f].frames) \in Nat \ {0}
           /\ Len(fibers[f].frames) \in 1..Len(fibers[f].frames)
           /\ TopFrame(f) = fibers[f].frames[Len(fibers[f].frames)]
<1>1. fibers[f].frames \in Seq(Frames) /\ fibers[f].frames # <<>> BY Types DEF ReturnFree, FiberRecords
<1>2. Len(fibers[f].frames) \in Nat \ {0} BY <1>1
<1> QED BY <1>2 DEF TopFrame

(* A program that does not split local variables has no split one.           *)
LEMMA NoneSplit ==
    ASSUME TypeOK, InPlace(table, fibers), "local" \notin SplitSources
    PROVE  LocalsWhole
<1>1. ASSUME NEW f \in Fibers, ReturnFree(f) PROVE SplitLocals(f) = {}
  <2>1. \A i \in FrameLocals(TopFrame(f)) : table[i].split = "unsplit"
        BY <1>1, FrameOnTop, LocalInPlace
  <2> QED BY <2>1 DEF SplitLocals
<1>2. ASSUME NEW f \in Fibers, NEW p \in Visited(f) PROVE table[p[2]].split = "unsplit"
  <2>1. p[1] \in 1..Len(fibers[f].frames) /\ p[2] \in FrameLocals(fibers[f].frames[p[1]])
        BY DEF Visited
  <2> QED BY <2>1, LocalInPlace
<1> QED BY <1>1, <1>2 DEF LocalsWhole

(* So a return frees all locals of its frame, and nothing else is popped.    *)
LEMMA ReturnShape ==
    ASSUME TypeOK, LocalsWhole, NEW f \in Fibers, ReturnFree(f)
    PROVE  /\ Len(fibers[f].frames) \in Nat \ {0}
           /\ TopFrame(f) = fibers[f].frames[Len(fibers[f].frames)]
           /\ \A i \in FrameLocals(TopFrame(f)) : table[i].split = "unsplit"
           /\ RemoveFreed(MarkFreed(FrameLocals(TopFrame(f))))
           /\ fibers' = [fibers EXCEPT ![f].frames = SubSeq(@, 1, Len(@) - 1)]
           /\ UNCHANGED <<calling, fault>>
<1>1. SplitLocals(f) = {} BY DEF LocalsWhole
<1>2. \A i \in FrameLocals(TopFrame(f)) : table[i].split = "unsplit" BY <1>1 DEF SplitLocals
<1>3. /\ RemoveFreed(MarkFreed(FrameLocals(TopFrame(f))))
      /\ fibers' = [fibers EXCEPT ![f].frames = SubSeq(@, 1, Len(@) - 1)]
      /\ UNCHANGED <<calling, fault>>
      BY <1>1 DEF ReturnFree
<1> QED BY <1>2, <1>3, FrameOnTop

(* A return drops the locals of the frame on top.                            *)
LEMMA ReturnDrops ==
    ASSUME TypeOK, InPlace(table, fibers), LocalsWhole, NEW f \in Fibers, ReturnFree(f)
    PROVE  Drops(table, table', fibers, fibers', FrameLocals(TopFrame(f)))
<1> DEFINE N == Len(fibers[f].frames)
           slots == FrameLocals(fibers[f].frames[N])
           u == table'
           gs == fibers'
<1>0. /\ N \in Nat \ {0}
      /\ RemoveFreed(MarkFreed(slots))
      /\ gs = [fibers EXCEPT ![f].frames = SubSeq(@, 1, N - 1)]
      BY ReturnShape DEF TopFrame
<1>1. /\ Len(u) \in Nat /\ Len(u) <= Len(table)
      /\ \A i \in 1..Len(u) :
            u[i] = IF i \in slots THEN [table[i] EXCEPT !.status = "freed"] ELSE table[i]
      /\ \A i \in Len(u) + 1..Len(table) : i \in slots \/ ~CanBeFreed(table[i])
      BY <1>0, TrimShape
<1>2. fibers \in [Fibers -> FiberRecords] /\ Len(table) \in Nat
      /\ \A i \in 1..Len(table) : table[i] \in Entries
      BY Types
<1>3. fibers[f].frames \in Seq(Frames) BY <1>2 DEF FiberRecords
<1>4. N \in 1..N /\ N = Len(fibers[f].frames) BY <1>0
<1>5. fibers[f].status # "absent" BY DEF ReturnFree
<1>6. /\ \A g \in Fibers \ {f} : gs[g] = fibers[g]
      /\ gs[f].status = fibers[f].status /\ gs[f].handle = fibers[f].handle
      /\ gs[f].frames = SubSeq(fibers[f].frames, 1, N - 1)
      BY <1>0, <1>2 DEF FiberRecords
<1> HIDE DEF u, gs, N
<1>7. Len(gs[f].frames) = N - 1 /\ \A d \in 1..N - 1 : gs[f].frames[d] = fibers[f].frames[d]
  <2>1. N - 1 \in Nat /\ N - 1 <= Len(fibers[f].frames) BY <1>0, <1>4
  <2> QED BY <1>3, <1>4, <1>6, <2>1, SubSeqProperties
<1>8. ASSUME NEW g \in Fibers, NEW d \in 1..Len(gs[g].frames)
      PROVE  /\ d \in 1..Len(fibers[g].frames)
             /\ gs[g].frames[d] = fibers[g].frames[d]
             /\ ~(g = f /\ d = N)
  <2>1. CASE g = f
    <3>1. d \in 1..N - 1 BY <1>7, <2>1
    <3>2. d \in 1..N /\ d # N BY <1>0, <3>1
    <3> QED BY <1>4, <1>7, <2>1, <3>1, <3>2
  <2>2. CASE g # f BY <1>6, <2>2
  <2> QED BY <2>1, <2>2
<1>9. ASSUME NEW g \in Fibers, NEW d \in 1..Len(fibers[g].frames), ~(g = f /\ d = N)
      PROVE  FrameLocals(fibers[g].frames[d]) \cap slots = {}
  <2>1. FramesApart(fibers) BY DEF InPlace
  <2>2. N \in 1..Len(fibers[f].frames) BY <1>4
  <2> HIDE DEF FrameLocals
  <2>3. ASSUME NEW i \in FrameLocals(fibers[g].frames[d]), i \in FrameLocals(fibers[f].frames[N])
        PROVE  FALSE
    <3>1. g = f /\ d = N BY <2>1, <2>2, <2>3 DEF FramesApart
    <3> QED BY <1>9, <3>1
  <2> QED BY <2>3
<1>10. \A i \in slots : i \in 1..Len(table) /\ table[i].src = "local"
  <2>1. N \in 1..Len(fibers[f].frames) BY <1>4
  <2> QED BY <2>1, LocalInPlace DEF HoldsLocal
<1>11. \A g \in Fibers : fibers[g].status # "absent" => fibers[g].handle \notin slots
  BY <1>10 DEF InPlace, HandlesHeld, IsHandle
<1>12. \A g \in Fibers :
         /\ gs[g].status = fibers[g].status
         /\ gs[g].handle = fibers[g].handle
         /\ fibers[g].status # "absent" => fibers[g].handle \notin slots
         /\ fibers[g].status = "absent" => gs[g] = fibers[g]
  BY <1>5, <1>6, <1>11
<1>13. ASSUME NEW g \in Fibers, NEW d \in 1..Len(fibers[g].frames)
       PROVE  d \in 1..Len(gs[g].frames) \/ FrameLocals(fibers[g].frames[d]) \subseteq slots
  <2>1. CASE g = f /\ d = N BY <2>1
  <2>2. CASE g = f /\ d # N
    <3>1. d \in 1..N /\ d # N BY <1>4, <2>2
    <3>2. d \in 1..N - 1 BY <1>0, <3>1
    <3> QED BY <1>7, <2>2, <3>2
  <2>3. CASE g # f BY <1>6, <2>3
  <2> QED BY <2>1, <2>2, <2>3
<1>14. \A g \in Fibers : \A d \in 1..Len(gs[g].frames) :
         /\ d \in 1..Len(fibers[g].frames)
         /\ gs[g].frames[d] = fibers[g].frames[d]
         /\ FrameLocals(fibers[g].frames[d]) \cap slots = {}
  BY <1>8, <1>9
<1>15. ~CollectFibers => \A g \in Fibers : \A d \in 1..Len(fibers[g].frames) :
          \/ d \in 1..Len(gs[g].frames)
          \/ FrameLocals(fibers[g].frames[d]) \subseteq slots
  BY <1>13
<1> HIDE DEF slots
<1>16. \A g \in Fibers :
         \/ gs[g] = Absent /\ (fibers[g].status # "absent" => fibers[g].handle \in slots)
         \/ /\ gs[g].status = fibers[g].status
            /\ gs[g].handle = fibers[g].handle
            /\ fibers[g].status # "absent" => fibers[g].handle \notin slots
            /\ fibers[g].status = "absent" => gs[g] = fibers[g]
  BY <1>12
<1>17. Drops(table, u, fibers, gs, slots) BY <1>1, <1>2, <1>14, <1>15, <1>16 DEF Drops
<1> QED BY <1>17 DEF u, gs, slots, N, TopFrame

(* Destroying a fiber frees the locals of its frames and its handle.         *)
LEMMA DestroyShape ==
    ASSUME TypeOK, InPlace(table, fibers), LocalsWhole, NEW f \in Fibers, DestroyFiber(f)
    PROVE  /\ RemoveFreed(MarkFreed(Cancelled(f)))
           /\ fibers' = [fibers EXCEPT ![f] = Absent]
           /\ UNCHANGED <<calling, fault>>
           /\ \A p \in Visited(f) : table[p[2]].split = "unsplit"
<1>1. ASSUME NEW p \in Visited(f)
      PROVE  /\ table[p[2]].src = "local" /\ CanBeFreed(table[p[2]])
             /\ table[p[2]].split = "unsplit"
  <2>1. p[1] \in 1..Len(fibers[f].frames) /\ p[2] \in FrameLocals(fibers[f].frames[p[1]])
        BY DEF Visited
  <2> QED BY <2>1, LocalInPlace DEF HoldsLocal, LocalsWhole
<1>2. {p \in Visited(f) : table[p[2]].src # "local" \/ ~CanBeFreed(table[p[2]])} = {} BY <1>1
<1>3. {p \in Visited(f) : table[p[2]].split # "unsplit"} = {} BY <1>1
<1> QED BY <1>1, <1>2, <1>3 DEF DestroyFiber

(* The end of a fiber frees its handle and the locals of its frames.         *)
LEMMA CancelledEntries ==
    ASSUME TypeOK, InPlace(table, fibers), NEW f \in Fibers, fibers[f].status # "absent"
    PROVE  \A i : i \in Cancelled(f) <=>
              \/ i = fibers[f].handle
              \/ \E d \in 1..Len(fibers[f].frames) : i \in FrameLocals(fibers[f].frames[d])
<1>1. ASSUME NEW i, NEW d \in 1..Len(fibers[f].frames), i \in FrameLocals(fibers[f].frames[d])
      PROVE  i \in {p[2] : p \in Visited(f)}
  <2>1. i \in 1..Len(table) BY <1>1, LocalInPlace
  <2>2. <<d, i>> \in Visited(f) BY <1>1, <2>1 DEF Visited
  <2>3. <<d, i>>[2] = i OBVIOUS
  <2> QED BY <2>2, <2>3
<1>2. ASSUME NEW i \in {p[2] : p \in Visited(f)}
      PROVE  \E d \in 1..Len(fibers[f].frames) : i \in FrameLocals(fibers[f].frames[d])
  <2>1. PICK p \in Visited(f) : i = p[2] BY <1>2
  <2> QED BY <2>1 DEF Visited
<1> QED BY <1>1, <1>2 DEF Cancelled

(* So it drops the whole fiber.                                              *)
LEMMA DestroyDrops ==
    ASSUME TypeOK, InPlace(table, fibers), LocalsWhole, NEW f \in Fibers, DestroyFiber(f)
    PROVE  Drops(table, table', fibers, fibers', Cancelled(f))
<1> DEFINE slots == Cancelled(f)
           u == table'
           gs == fibers'
<1>0. /\ RemoveFreed(MarkFreed(slots))
      /\ gs = [fibers EXCEPT ![f] = Absent]
      /\ fibers[f].status # "absent"
      BY DestroyShape DEF DestroyFiber
<1>1. /\ Len(u) \in Nat /\ Len(u) <= Len(table)
      /\ \A i \in 1..Len(u) :
            u[i] = IF i \in slots THEN [table[i] EXCEPT !.status = "freed"] ELSE table[i]
      /\ \A i \in Len(u) + 1..Len(table) : i \in slots \/ ~CanBeFreed(table[i])
      BY <1>0, TrimShape
<1>2. fibers \in [Fibers -> FiberRecords] /\ Len(table) \in Nat
      /\ \A i \in 1..Len(table) : table[i] \in Entries
      BY Types
<1>3. gs[f] = Absent /\ \A g \in Fibers \ {f} : gs[g] = fibers[g] BY <1>0, <1>2
<1>4. \A i : i \in slots <=>
         \/ i = fibers[f].handle
         \/ \E d \in 1..Len(fibers[f].frames) : i \in FrameLocals(fibers[f].frames[d])
      BY <1>0, CancelledEntries
<1> HIDE DEF u, gs, slots
<1>5. Len(gs[f].frames) = 0 BY <1>3 DEF Absent
<1>6. IsHandle(table, fibers[f].handle) BY <1>0 DEF InPlace, HandlesHeld
<1>7. ASSUME NEW g \in Fibers, NEW d \in 1..Len(gs[g].frames)
      PROVE  /\ d \in 1..Len(fibers[g].frames)
             /\ gs[g].frames[d] = fibers[g].frames[d]
             /\ FrameLocals(fibers[g].frames[d]) \cap slots = {}
  <2>1. g # f BY <1>5
  <2>2. d \in 1..Len(fibers[g].frames) /\ gs[g].frames[d] = fibers[g].frames[d] BY <1>3, <2>1
  <2>3. FramesApart(fibers) BY DEF InPlace
  <2>4. ASSUME NEW i \in FrameLocals(fibers[g].frames[d]), i \in slots PROVE FALSE
    <3>1. table[i].src = "local" BY <2>2, <2>4, LocalInPlace DEF HoldsLocal
    <3>2. i # fibers[f].handle BY <1>6, <3>1 DEF IsHandle
    <3>3. PICK c \in 1..Len(fibers[f].frames) : i \in FrameLocals(fibers[f].frames[c])
          BY <1>4, <2>4, <3>2
    <3> HIDE DEF FrameLocals
    <3>4. g = f BY <2>2, <2>3, <2>4, <3>3 DEF FramesApart
    <3> QED BY <2>1, <3>4
  <2> QED BY <2>2, <2>4
<1>8. \A g \in Fibers :
         \/ gs[g] = Absent /\ (fibers[g].status # "absent" => fibers[g].handle \in slots)
         \/ /\ gs[g].status = fibers[g].status
            /\ gs[g].handle = fibers[g].handle
            /\ fibers[g].status # "absent" => fibers[g].handle \notin slots
            /\ fibers[g].status = "absent" => gs[g] = fibers[g]
  <2>1. TAKE g \in Fibers
  <2>2. CASE g = f BY <1>3, <1>4, <2>2
  <2>3. CASE g # f
    <3>1. gs[g] = fibers[g] BY <1>3, <2>3
    <3>2. ASSUME fibers[g].status # "absent", fibers[g].handle \in slots PROVE FALSE
      <4>1. fibers[g].handle # fibers[f].handle BY <1>0, <2>3, <3>2 DEF InPlace, HandlesHeld
      <4>2. PICK c \in 1..Len(fibers[f].frames) : fibers[g].handle \in FrameLocals(fibers[f].frames[c])
            BY <1>4, <3>2, <4>1
      <4>3. table[fibers[g].handle].src = "local" BY <4>2, LocalInPlace DEF HoldsLocal
      <4>4. IsHandle(table, fibers[g].handle) BY <3>2 DEF InPlace, HandlesHeld
      <4> QED BY <4>3, <4>4 DEF IsHandle
    <3> QED BY <3>1, <3>2
  <2> QED BY <2>2, <2>3
<1>9. ~CollectFibers => \A g \in Fibers : \A d \in 1..Len(fibers[g].frames) :
          \/ d \in 1..Len(gs[g].frames)
          \/ FrameLocals(fibers[g].frames[d]) \subseteq slots
  <2>1. SUFFICES ASSUME NEW g \in Fibers, NEW d \in 1..Len(fibers[g].frames)
                 PROVE  d \in 1..Len(gs[g].frames) \/ FrameLocals(fibers[g].frames[d]) \subseteq slots
    OBVIOUS
  <2>2. CASE g = f BY <1>4, <2>2
  <2>3. CASE g # f BY <1>3, <2>3
  <2> QED BY <2>2, <2>3
<1>10. \A g \in Fibers : \A d \in 1..Len(gs[g].frames) :
         /\ d \in 1..Len(fibers[g].frames)
         /\ gs[g].frames[d] = fibers[g].frames[d]
         /\ FrameLocals(fibers[g].frames[d]) \cap slots = {}
  BY <1>7
<1>11. Drops(table, u, fibers, gs, slots) BY <1>1, <1>2, <1>8, <1>9, <1>10 DEF Drops
<1> QED BY <1>11 DEF u, gs, slots

(* A collection leaves locals alone, and handles that it does not collect.   *)
LEMMA CollectPlaced ==
    ASSUME TypeOK, InPlace(table, fibers), NEW unreachable \in SUBSET (1..Len(table)),
           Collect(unreachable)
    PROVE  InPlace(table', fibers')
<1> DEFINE u == table'
           gs == fibers'
<1>1. /\ \A i \in unreachable : table[i].src \in {"heap", "fiber"}
      /\ \A i \in unreachable : table[i].src = "fiber" => CollectFibers
      /\ u = MarkFreed(unreachable)
      /\ gs = [f \in Fibers |-> IF fibers[f].status # "absent" /\ fibers[f].handle \in unreachable
                                THEN Absent ELSE fibers[f]]
      BY DEF Collect, DestroyAll
<1>2. Len(table) \in Nat /\ \A i \in 1..Len(table) : table[i] \in Entries
      BY Types
<1>3. /\ Len(u) = Len(table)
      /\ \A i \in 1..Len(table) :
            u[i] = IF i \in unreachable THEN [table[i] EXCEPT !.status = "freed"] ELSE table[i]
      BY <1>1, Types, MarkFreedShape
<1> HIDE DEF u, gs
<1>4. /\ Len(u) \in Nat /\ Len(u) <= Len(table)
      /\ \A i \in 1..Len(u) :
            u[i] = IF i \in unreachable THEN [table[i] EXCEPT !.status = "freed"] ELSE table[i]
      /\ \A i \in Len(u) + 1..Len(table) : i \in unreachable \/ ~CanBeFreed(table[i])
  <2>1. Len(u) + 1..Len(table) = {} BY <1>2, <1>3
  <2> QED BY <1>2, <1>3, <2>1
<1>5. \A g \in Fibers :
         \/ gs[g] = Absent /\ (fibers[g].status # "absent" => fibers[g].handle \in unreachable)
         \/ /\ gs[g].status = fibers[g].status
            /\ gs[g].handle = fibers[g].handle
            /\ fibers[g].status # "absent" => fibers[g].handle \notin unreachable
            /\ fibers[g].status = "absent" => gs[g] = fibers[g]
  BY <1>1
<1>6. ASSUME NEW g \in Fibers, NEW d \in 1..Len(gs[g].frames)
      PROVE  /\ d \in 1..Len(fibers[g].frames)
             /\ gs[g].frames[d] = fibers[g].frames[d]
             /\ FrameLocals(fibers[g].frames[d]) \cap unreachable = {}
  <2>1. gs[g] = fibers[g]
    <3>1. gs[g] # Absent BY <1>6 DEF Absent
    <3> QED BY <1>1, <3>1
  <2>2. d \in 1..Len(fibers[g].frames) BY <2>1
  <2>3. \A i \in FrameLocals(fibers[g].frames[d]) : table[i].src = "local"
        BY <2>2, LocalInPlace DEF HoldsLocal
  <2> QED BY <1>1, <2>1, <2>2, <2>3
<1>7. ASSUME ~CollectFibers, NEW g \in Fibers, NEW d \in 1..Len(fibers[g].frames)
      PROVE  d \in 1..Len(gs[g].frames)
  <2>1. fibers[g].status # "absent" => fibers[g].handle \notin unreachable
        BY <1>1, <1>7 DEF InPlace, HandlesHeld, IsHandle
  <2> QED BY <1>1, <1>7, <2>1
<1>8. \A g \in Fibers : \A d \in 1..Len(gs[g].frames) :
         /\ d \in 1..Len(fibers[g].frames)
         /\ gs[g].frames[d] = fibers[g].frames[d]
         /\ FrameLocals(fibers[g].frames[d]) \cap unreachable = {}
  BY <1>6
<1>9. ~CollectFibers => \A g \in Fibers : \A d \in 1..Len(fibers[g].frames) :
          \/ d \in 1..Len(gs[g].frames)
          \/ FrameLocals(fibers[g].frames[d]) \subseteq unreachable
  BY <1>7
<1>10. Drops(table, u, fibers, gs, unreachable) BY <1>2, <1>4, <1>5, <1>8, <1>9 DEF Drops
<1>11. InPlace(u, gs) BY <1>10, DroppedInPlace
<1> QED BY <1>11 DEF u, gs

(* The end of the process leaves nothing.                                    *)
LEMMA CleanupPlaced ==
    ASSUME Cleanup
    PROVE  InPlace(table', fibers')
<1> DEFINE u == <<>>
           gs == [f \in Fibers |-> Absent]
<1>1. table' = u /\ fibers' = gs BY DEF Cleanup
<1>2. 1..Len(u) = {} OBVIOUS
<1>3. ASSUME NEW f \in Fibers PROVE gs[f] = Absent /\ 1..Len(gs[f].frames) = {} /\ gs[f].status = "absent"
  BY DEF Absent
<1> HIDE DEF u, gs
<1>4. FramesPlaced(u, gs) BY <1>3 DEF FramesPlaced
<1>5. FramesApart(gs) BY <1>3 DEF FramesApart
<1>6. HandlesHeld(u, gs) BY <1>2, <1>3 DEF HandlesHeld
<1>7. Untouched(u) /\ LocalsOwned(u, gs) BY <1>2 DEF Untouched, LocalsOwned
<1>8. InPlace(u, gs) BY <1>4, <1>5, <1>6, <1>7 DEF InPlace
<1> QED BY <1>1, <1>8

(* A process starts with its globals and without a fiber.                    *)
LEMMA InitPlaced == Init => PlacedInv
<1> SUFFICES ASSUME Init PROVE PlacedInv
    OBVIOUS
<1>1. \A f \in Fibers : fibers[f] = Absent /\ 1..Len(fibers[f].frames) = {} /\ fibers[f].status = "absent"
  <2>1. \A f \in Fibers : fibers[f] = Absent BY DEF Init
  <2>2. 1..Len(Absent.frames) = {} /\ Absent.status = "absent"
    <3>1. Absent.frames = <<>> /\ Absent.status = "absent" BY DEF Absent
    <3> QED BY <3>1
  <2> QED BY <2>1, <2>2
<1>2. \A i \in 1..Len(table) : table[i].src = "static"
  <2>1. table = [i \in 1..Len(Globals) |-> GlobalEntry(i)] BY DEF Init
  <2>2. Len(Globals) \in Nat BY MemoryAssumption DEF MemoryAssumption
  <2>3. Len(table) = Len(Globals) BY <2>1, <2>2
  <2>4. \A i \in 1..Len(Globals) : GlobalEntry(i).src = "static" BY DEF GlobalEntry, NewEntry
  <2> QED BY <2>1, <2>3, <2>4
<1>3. FramesPlaced(table, fibers) BY <1>1 DEF FramesPlaced
<1>4. FramesApart(fibers) BY <1>1 DEF FramesApart
<1>5. HandlesHeld(table, fibers) BY <1>1, <1>2 DEF HandlesHeld, IsHandle
<1>6. Untouched(table) /\ LocalsOwned(table, fibers) BY <1>2 DEF Untouched, LocalsOwned
<1>7. calling = Idle /\ fault = "none" BY DEF Init
<1> QED BY <1>3, <1>4, <1>5, <1>6, <1>7 DEF PlacedInv, InPlace

(* Freeing heap blocks is not where the assertion is.                        *)
LEMMA FreeNativeFault ==
    ASSUME NEW slots, FreeNative(slots)
    PROVE  fault' # "assertion"
BY DEF FreeNative

(* Every step keeps frames, handles and their entries in place.              *)
LEMMA NextPlaced ==
    ASSUME TypeOK, PlacedInv, [Next]_vars,
           "local" \notin SplitSources \/ (InOrder /\ [LocalsWhole]_vars)
    PROVE  PlacedInv'
<1>u. CASE UNCHANGED vars BY <1>u DEF vars, PlacedInv
<1> SUFFICES ASSUME Next, LocalsWhole,
                    "local" \notin SplitSources \/ InOrder,
                    InPlace(table, fibers),
                    calling # Idle => fibers[calling.fiber].status # "absent",
                    fault # "assertion"
             PROVE  /\ InPlace(table', fibers')
                    /\ calling' # Idle => fibers'[calling'.fiber].status # "absent"
                    /\ fault' # "assertion"
    BY <1>u, NoneSplit DEF PlacedInv
<1>a. /\ Len(table) \in Nat /\ epoch \in Nat /\ curGen \in 0..Generations - 1
      /\ fibers \in [Fibers -> FiberRecords]
      BY Types
<1>b. Len(table) + 1 \in Nat BY <1>a
<1>1. ASSUME NEW size \in StaticSizes, AddStatic(size)
      PROVE  InPlace(table', fibers') /\ UNCHANGED <<fibers, calling, fault>>
  <2> DEFINE e == NewEntry("static", "allocated", Len(table) + 1, curGen, size)
  <2>1. size \in Nat BY MemoryAssumption DEF MemoryAssumption
  <2>2. e \in Entries BY <1>a, <1>b, <2>1, NewEntryType DEF Sources, Statuses
  <2>3. e.src = "static" BY DEF NewEntry
  <2>4. table' = Append(table, e) /\ UNCHANGED <<fibers, calling, fault>> BY <1>1 DEF AddStatic, Push
  <2> HIDE DEF e
  <2> QED BY <2>2, <2>3, <2>4, AppendKeeps
<1>2. ASSUME NEW size \in Nat, PushHeap(size), UNCHANGED fibers PROVE InPlace(table', fibers')
  <2> DEFINE e == NewEntry("heap", "allocated", Len(table) + 1, curGen, size)
  <2>1. e \in Entries BY <1>a, <1>b, NewEntryType DEF Sources, Statuses
  <2>2. e.src = "heap" BY DEF NewEntry
  <2>3. table' = Append(table, e) BY <1>2 DEF PushHeap, Push
  <2> HIDE DEF e
  <2> QED BY <1>2, <2>1, <2>2, <2>3, AppendKeeps
<1>3. ASSUME NEW size \in HeapSizes, HeapAlloc(size)
      PROVE  InPlace(table', fibers') /\ UNCHANGED <<fibers, calling, fault>>
  <2>1. size \in Nat BY MemoryAssumption DEF MemoryAssumption
  <2> QED BY <1>2, <1>3, <2>1 DEF HeapAlloc
<1>4. ASSUME NEW a \in Addresses, TransferLocal(a)
      PROVE  InPlace(table', fibers') /\ UNCHANGED <<fibers, calling, fault>>
  <2>1. table[a.slot] \in Entries BY <1>4, ResolvesToEntry DEF TransferLocal
  <2>2. table[a.slot].size \in Nat BY <2>1 DEF Entries
  <2> QED BY <1>2, <1>4, <2>2 DEF TransferLocal
<1>5. ASSUME NEW a \in Addresses, HeapFree(a)
      PROVE  InPlace(table', fibers') /\ UNCHANGED <<fibers, calling>> /\ fault' # "assertion"
  <2>1. UNCHANGED <<fibers, calling>> /\ fault' # "assertion" BY <1>5, FreeNativeFault DEF HeapFree
  <2> QED BY <1>5, <2>1, HeapFreePlaced
<1>6. ASSUME NEW a \in Addresses, Poison(a) \/ Unpoison(a)
      PROVE  InPlace(table', fibers') /\ UNCHANGED <<fibers, calling, fault>>
  <2>1. UNCHANGED <<fibers, calling, fault>> BY <1>6 DEF Poison, Unpoison
  <2> QED BY <1>6, <2>1, PoisonPlaced
<1>7. ASSUME NEW a \in Addresses, NEW offset \in SplitOffsets, NEW moved \in BOOLEAN,
             Split(a, offset, moved)
      PROVE  InPlace(table', fibers') /\ UNCHANGED <<fibers, calling, fault>>
  <2>1. UNCHANGED <<fibers, calling, fault>> BY <1>7 DEF Split
  <2> QED BY <1>7, <2>1, SplitPlaced
<1>8. ASSUME NEW a1 \in Addresses, NEW a2 \in Addresses, Merge(a1, a2)
      PROVE  InPlace(table', fibers') /\ UNCHANGED <<fibers, calling, fault>>
  <2>1. UNCHANGED <<fibers, calling, fault>> BY <1>8 DEF Merge
  <2> QED BY <1>8, <2>1, MergePlaced
<1>9. ASSUME NEW unreachable \in SUBSET (1..Len(table)), Collect(unreachable)
      PROVE  InPlace(table', fibers') /\ calling' = Idle /\ fault' # "assertion"
  <2>1. calling' = Idle /\ fault' # "assertion" BY <1>9, FreeNativeFault DEF Collect, Running
  <2> QED BY <1>9, <2>1, CollectPlaced
<1>10. ASSUME NEW f \in Fibers, CreateFiber(f)
       PROVE  InPlace(table', fibers') /\ calling' = Idle /\ UNCHANGED fault
  <2>1. calling' = Idle /\ UNCHANGED fault BY <1>10 DEF CreateFiber, Running
  <2> QED BY <1>10, <2>1, CreatePlaced
<1>11. ASSUME NEW f \in Fibers, DestroyFiber(f)
       PROVE  InPlace(table', fibers') /\ calling' = Idle /\ UNCHANGED fault
  <2>1. calling' = Idle /\ UNCHANGED fault BY <1>11, DestroyShape DEF DestroyFiber, Running
  <2>2. Drops(table, table', fibers, fibers', Cancelled(f)) BY <1>11, DestroyDrops
  <2> QED BY <2>1, <2>2, DroppedInPlace
<1>12. ASSUME NEW f \in Fibers, ReturnFree(f)
       PROVE  InPlace(table', fibers') /\ calling' = Idle /\ UNCHANGED fault
  <2>1. calling' = Idle /\ UNCHANGED fault BY <1>12 DEF ReturnFree, Running
  <2>2. Drops(table, table', fibers, fibers', FrameLocals(TopFrame(f))) BY <1>12, ReturnDrops
  <2> QED BY <2>1, <2>2, DroppedInPlace
<1>13. ASSUME NEW f \in Fibers, NEW n \in LocalCounts, Call(f, n)
       PROVE  /\ InPlace(table', fibers') /\ UNCHANGED fault
              /\ fibers'[calling'.fiber].status # "absent"
  BY <1>13 DEF Call
<1>14. ASSUME GrowTable
       PROVE  InPlace(table', fibers') /\ UNCHANGED <<fibers, calling, fault>>
  BY <1>14 DEF GrowTable
<1>15. ASSUME SetupLocals
       PROVE  InPlace(table', fibers') /\ calling' = Idle /\ UNCHANGED fault
  <2>1. calling' = Idle /\ UNCHANGED fault /\ calling # Idle BY <1>15 DEF SetupLocals
  <2> QED BY <1>15, <2>1, SetUpPlaced
<1>16. ASSUME Cleanup
       PROVE  InPlace(table', fibers') /\ calling' = Idle /\ fault' # "assertion"
  <2>1. calling' = Idle /\ fault' # "assertion" BY <1>16, FreeNativeFault DEF Cleanup, Running
  <2> QED BY <1>16, <2>1, CleanupPlaced
<1> QED
  BY <1>1, <1>3, <1>4, <1>5, <1>6, <1>7, <1>8, <1>9, <1>10, <1>11, <1>12, <1>13, <1>14, <1>15, <1>16
  DEF Next

(* They are in place at all times.                                           *)
LEMMA PlacedHolds == Spec /\ LocalsMerged => [](TypeOK /\ PlacedInv)
<1>1. Init => TypeOK /\ PlacedInv BY InitType, InitPlaced
<1>2. ASSUME "local" \notin SplitSources PROVE Spec => [](TypeOK /\ PlacedInv)
  <2>1. TypeOK /\ PlacedInv /\ [Next]_vars => (TypeOK /\ PlacedInv)' BY <1>2, NextType, NextPlaced
  <2> QED BY <1>1, <2>1, PTL DEF Spec
<1>3. ASSUME InOrder PROVE Spec /\ [][LocalsWhole]_vars => [](TypeOK /\ PlacedInv)
  <2>1. TypeOK /\ PlacedInv /\ [Next]_vars /\ [LocalsWhole]_vars => (TypeOK /\ PlacedInv)'
        BY <1>3, NextType, NextPlaced
  <2> QED BY <1>1, <2>1, PTL DEF Spec
<1> QED BY <1>2, <1>3 DEF LocalsMerged

(* The locals of every frame are where the frame says, in every program that *)
(* does not split local variables, or merges them again in order and before  *)
(* their frame ends: however many fibers interleave their calls and returns, *)
(* and whatever else is allocated, split, freed and collected.               *)
THEOREM LocalsStayInPlace == Spec /\ LocalsMerged => []LocalsInPlace
<1>1. TypeOK /\ PlacedInv => LocalsInPlace
  <2> SUFFICES ASSUME InPlace(table, fibers) PROVE LocalsInPlace
    BY DEF PlacedInv
  <2>1. ASSUME NEW f \in Fibers, NEW d \in 1..Len(fibers[f].frames),
               NEW i \in FrameLocals(fibers[f].frames[d])
        PROVE  /\ i \in 1..Len(table)
               /\ HoldsLocal(table[i], fibers[f].frames[d], i)
    BY LocalInPlace
  <2>2. FramesApart(fibers) BY DEF InPlace
  <2>3. ASSUME NEW f \in Fibers, NEW d \in 1..Len(fibers[f].frames),
               NEW i \in FrameLocals(fibers[f].frames[d]),
               NEW g \in Fibers, NEW c \in 1..Len(fibers[g].frames),
               i \in FrameLocals(fibers[g].frames[c])
        PROVE  f = g /\ c = d
    <3> HIDE DEF FrameLocals
    <3> QED BY <2>2, <2>3 DEF FramesApart
  <2>4. ASSUME NEW f \in Fibers, NEW d \in 1..Len(fibers[f].frames),
               NEW i \in FrameLocals(fibers[f].frames[d])
        PROVE  /\ i \in 1..Len(table)
               /\ table[i].src = "local"
               /\ table[i].blk = LocalBlock(fibers[f].frames[d], i)
               /\ table[i].gen = fibers[f].frames[d].gen
               /\ table[i].off = 0
               /\ \A g \in Fibers : \A c \in 1..Len(fibers[g].frames) :
                     i \in FrameLocals(fibers[g].frames[c]) => f = g /\ c = d
    <3>1. \A g \in Fibers : \A c \in 1..Len(fibers[g].frames) :
             i \in FrameLocals(fibers[g].frames[c]) => f = g /\ c = d
          BY <2>3
    <3> QED BY <2>1, <3>1 DEF HoldsLocal
  <2> QED BY <2>4 DEF LocalsInPlace
<1> QED BY <1>1, PlacedHolds, PTL

(* The fiber entries that are not freed are the handles of the fibers that   *)
(* exist, and no two fibers have one handle, in the same programs.           *)
THEOREM HandlesAreFibers == Spec /\ LocalsMerged => []HandlesMatchFibers
<1>1. TypeOK /\ PlacedInv => HandlesMatchFibers
  <2> SUFFICES ASSUME InPlace(table, fibers) PROVE HandlesMatchFibers
    BY DEF PlacedInv
  <2>2. HandlesHeld(table, fibers) /\ Untouched(table) BY DEF InPlace
  <2>3. \A i : IsHandle(table, i) => table[i].status = "poison"
        BY <2>2 DEF Untouched, IsHandle, CanBeFreed
  <2> QED BY <2>2, <2>3 DEF HandlesMatchFibers, HandlesHeld, IsHandle
<1> QED BY <1>1, PlacedHolds, PTL

(* What lauf_runtime_destroy_fiber frees is a local variable that has not    *)
(* been freed, in the same programs.                                         *)
THEOREM DestroyAssertsHold == Spec /\ LocalsMerged => []NoAssertionFails
<1>1. TypeOK /\ PlacedInv => NoAssertionFails
  BY DEF PlacedInv, NoAssertionFails
<1> QED BY <1>1, PlacedHolds, PTL

(* What the entry of something that lives on keeps.                          *)
Stays(d, e) == d.gen = e.gen /\ d.blk = e.blk /\ d.off = e.off

(* Whoever drops entries, drops the ones of frames and handles that are gone *)
(* with them.                                                                *)
LEMMA DroppedStay ==
    ASSUME NEW t, NEW u, NEW fs, NEW gs, NEW slots, InPlace(t, fs), Drops(t, u, fs, gs, slots),
           NEW i \in 1..Len(t), CanBeFreed(t[i])
    PROVE  \/ i \in 1..Len(u) /\ Stays(u[i], t[i])
           \/ /\ i \in slots
              /\ \A g \in Fibers : gs[g].handle # i
              /\ \A g \in Fibers : \A d \in 1..Len(gs[g].frames) :
                    i \notin FrameLocals(gs[g].frames[d])
<1> USE DEF Drops
<1>1. CASE i \in 1..Len(u)
  <2>1. t[i] \in Entries OBVIOUS
  <2>2. u[i] = t[i] \/ u[i] = [t[i] EXCEPT !.status = "freed"] BY <1>1
  <2>3. Stays(u[i], t[i]) BY <2>1, <2>2 DEF Stays, Entries
  <2> QED BY <1>1, <2>3
<1>2. CASE i \notin 1..Len(u)
  <2>1. i \in Len(u) + 1..Len(t) BY <1>2
  <2>2. i \in slots BY <2>1
  <2>3. ASSUME NEW g \in Fibers PROVE gs[g].handle # i
    <3>1. CASE gs[g] = Absent
      <4>1. Absent.handle = 0 /\ i # 0 BY DEF Absent
      <4> QED BY <3>1, <4>1
    <3>2. CASE gs[g] # Absent
      <4>1. /\ gs[g].handle = fs[g].handle
            /\ fs[g].status # "absent" => fs[g].handle \notin slots
            /\ fs[g].status = "absent" => gs[g] = fs[g]
            BY <3>2
      <4>2. fs[g].status # "absent" BY <3>2, <4>1 DEF InPlace, HandlesHeld
      <4> QED BY <2>2, <4>1, <4>2
    <3> QED BY <3>1, <3>2
  <2>4. ASSUME NEW g \in Fibers, NEW d \in 1..Len(gs[g].frames)
        PROVE  i \notin FrameLocals(gs[g].frames[d])
    BY <2>2
  <2> QED BY <2>2, <2>3, <2>4
<1> QED BY <1>1, <1>2

(* The block of a local that is in no frame is not that of a live local.     *)
LEMMA NotLiveLocal ==
    ASSUME NEW i, NEW fr,
           \A g \in Fibers : \A d \in 1..Len(fibers'[g].frames) :
              i \notin FrameLocals(fibers'[g].frames[d])
    PROVE  LocalBlock(fr, i) \notin LiveLocals'
<1> SUFFICES ASSUME LocalBlock(fr, i) \in LiveLocals' PROVE FALSE
    OBVIOUS
<1> DEFINE gs == fibers'
<1>1. LocalBlock(fr, i) \in UNION {UNION {{LocalBlock(f2, j) : j \in FrameLocals(f2)} :
                  f2 \in {gs[f].frames[d] : d \in 1..Len(gs[f].frames)}} :
           f \in {g \in Fibers : gs[g].status = "live"}}
      BY DEF LiveLocals
<1> HIDE DEF gs
<1>2. PICK f \in Fibers : LocalBlock(fr, i) \in UNION {{LocalBlock(f2, j) : j \in FrameLocals(f2)} :
                  f2 \in {gs[f].frames[d] : d \in 1..Len(gs[f].frames)}}
      BY <1>1
<1>3. PICK d \in 1..Len(gs[f].frames) :
         LocalBlock(fr, i) \in {LocalBlock(gs[f].frames[d], j) : j \in FrameLocals(gs[f].frames[d])}
      BY <1>2
<1>4. PICK j \in FrameLocals(gs[f].frames[d]) : LocalBlock(fr, i) = LocalBlock(gs[f].frames[d], j)
      BY <1>3
<1>5. i = j BY <1>4 DEF LocalBlock
<1> QED BY <1>4, <1>5 DEF gs

(* The steps that trim nothing leave every entry where it is.                *)
LEMMA AppendStays ==
    ASSUME TypeOK, NEW e, table' = Append(table, e)
    PROVE  \A i \in 1..Len(table) : i \in 1..Len(table') /\ Stays(table'[i], table[i])
<1>1. Len(table) \in Nat BY Types
<1> QED BY <1>1, AppendTable DEF Stays

(* The entries that are freed with nothing trimmed.                          *)
LEMMA MarkFreedStays ==
    ASSUME TypeOK, NEW slots, table' = MarkFreed(slots)
    PROVE  \A i \in 1..Len(table) : i \in 1..Len(table') /\ Stays(table'[i], table[i])
BY MarkFreedForm DEF Stays, SameForm

(* Poisoned and unpoisoned entries.                                          *)
LEMMA PoisonStays ==
    ASSUME TypeOK, NEW a \in Addresses, Poison(a) \/ Unpoison(a)
    PROVE  \A i \in 1..Len(table) : i \in 1..Len(table') /\ Stays(table'[i], table[i])
BY PoisonTable DEF Stays, SameForm

(* The entry that is split: the tail is new.                                 *)
LEMMA SplitKept ==
    ASSUME TypeOK, NEW a \in Addresses, NEW offset \in SplitOffsets, NEW moved \in BOOLEAN,
           Split(a, offset, moved)
    PROVE  \A i \in 1..Len(table) : i \in 1..Len(table') /\ Stays(table'[i], table[i])
<1>1. Len(table) \in Nat BY Types
<1>2. table[a.slot] \in Entries BY SplitTable
<1>3. Stays(HeadPiece(table[a.slot], offset), table[a.slot])
      BY <1>2 DEF HeadPiece, Stays, Entries
<1> QED BY <1>1, <1>3, SplitTable DEF Stays

(* The pieces that are merged: the second one is freed where it is.          *)
LEMMA MergeStays ==
    ASSUME TypeOK, NEW a1 \in Addresses, NEW a2 \in Addresses, Merge(a1, a2)
    PROVE  \A i \in 1..Len(table) : i \in 1..Len(table') /\ Stays(table'[i], table[i])
<1> DEFINE d == Grown(table[a1.slot], table[a2.slot])
<1>1. table[a1.slot] \in Entries /\ table[a2.slot] \in Entries BY MergeTable
<1>2. Stays(d, table[a1.slot]) BY <1>1 DEF Grown, Entries, Stays
<1>3. Stays([table[a2.slot] EXCEPT !.status = "freed"], table[a2.slot])
      BY <1>1 DEF Entries, Stays
<1>4. /\ Len(table') = Len(table)
      /\ \A i \in 1..Len(table) :
            table'[i] = IF i = a1.slot THEN d
                        ELSE IF i = a2.slot THEN [table[i] EXCEPT !.status = "freed"]
                        ELSE table[i]
      BY MergeTable
<1> HIDE DEF d
<1>5. \A i \in 1..Len(table) : Stays(table'[i], table[i]) BY <1>2, <1>3, <1>4 DEF Stays
<1> QED BY <1>4, <1>5

(* The table a call appends its locals to.                                   *)
LEMMA SetUpStays ==
    ASSUME TypeOK, SetupLocals
    PROVE  \A i \in 1..Len(table) : i \in 1..Len(table') /\ Stays(table'[i], table[i])
<1>1. Len(table) \in Nat BY Types
<1> QED BY <1>1, SetUpTable DEF Stays

(* What a return and the end of a fiber drop.                                *)
LEMMA ReturnStays ==
    ASSUME TypeOK, InPlace(table, fibers), LocalsWhole, NEW f \in Fibers, ReturnFree(f),
           NEW i \in 1..Len(table), CanBeFreed(table[i])
    PROVE  \/ i \in 1..Len(table') /\ Stays(table'[i], table[i])
           \/ table[i].src = "local" /\ table[i].blk \notin LiveLocals'
<1>1. Drops(table, table', fibers, fibers', FrameLocals(TopFrame(f))) BY ReturnDrops
<1>2. \/ i \in 1..Len(table') /\ Stays(table'[i], table[i])
      \/ /\ i \in FrameLocals(TopFrame(f))
         /\ \A g \in Fibers : \A d \in 1..Len(fibers'[g].frames) :
               i \notin FrameLocals(fibers'[g].frames[d])
      BY <1>1, DroppedStay
<1>3. ASSUME i \in FrameLocals(TopFrame(f)),
             \A g \in Fibers : \A d \in 1..Len(fibers'[g].frames) :
                i \notin FrameLocals(fibers'[g].frames[d])
      PROVE  table[i].src = "local" /\ table[i].blk \notin LiveLocals'
  <2> DEFINE N == Len(fibers[f].frames)
  <2>1. N \in 1..Len(fibers[f].frames) /\ TopFrame(f) = fibers[f].frames[N] BY ReturnShape
  <2> HIDE DEF N
  <2>2. HoldsLocal(table[i], fibers[f].frames[N], i) BY <1>3, <2>1, LocalInPlace
  <2>3. LocalBlock(fibers[f].frames[N], i) \notin LiveLocals' BY <1>3, NotLiveLocal
  <2> QED BY <2>2, <2>3 DEF HoldsLocal
<1> QED BY <1>2, <1>3

(* The end of a fiber drops its locals and its handle, and nothing else.     *)
LEMMA DestroyStays ==
    ASSUME TypeOK, InPlace(table, fibers), LocalsWhole, NEW f \in Fibers, DestroyFiber(f),
           NEW i \in 1..Len(table), CanBeFreed(table[i])
    PROVE  \/ i \in 1..Len(table') /\ Stays(table'[i], table[i])
           \/ table[i].src = "local" /\ table[i].blk \notin LiveLocals'
           \/ table[i].src = "fiber" /\ \A g \in Fibers : fibers'[g].handle # i
<1>1. Drops(table, table', fibers, fibers', Cancelled(f)) BY DestroyDrops
<1>2. \/ i \in 1..Len(table') /\ Stays(table'[i], table[i])
      \/ /\ i \in Cancelled(f)
         /\ \A g \in Fibers : fibers'[g].handle # i
         /\ \A g \in Fibers : \A d \in 1..Len(fibers'[g].frames) :
               i \notin FrameLocals(fibers'[g].frames[d])
      BY <1>1, DroppedStay
<1>3. fibers[f].status # "absent" BY DEF DestroyFiber
<1>4. ASSUME i \in Cancelled(f), i # fibers[f].handle,
             \A g \in Fibers : \A d \in 1..Len(fibers'[g].frames) :
                i \notin FrameLocals(fibers'[g].frames[d])
      PROVE  table[i].src = "local" /\ table[i].blk \notin LiveLocals'
  <2>1. PICK d \in 1..Len(fibers[f].frames) : i \in FrameLocals(fibers[f].frames[d])
        BY <1>3, <1>4, CancelledEntries
  <2>2. HoldsLocal(table[i], fibers[f].frames[d], i) BY <2>1, LocalInPlace
  <2>3. LocalBlock(fibers[f].frames[d], i) \notin LiveLocals' BY <1>4, NotLiveLocal
  <2> QED BY <2>2, <2>3 DEF HoldsLocal
<1>5. ASSUME i = fibers[f].handle PROVE table[i].src = "fiber"
  <2>1. IsHandle(table, fibers[f].handle) BY <1>3 DEF InPlace, HandlesHeld
  <2> QED BY <1>5, <2>1 DEF IsHandle
<1> QED BY <1>2, <1>4, <1>5

(* An address stays good while what it stands for lives, in the same         *)
(* programs: whatever other fibers add, split, free and trim, an entry leaves *)
(* the table only with its frame or fiber, and keeps its index, generation   *)
(* and memory until then.                                                    *)
THEOREM AddressesStayGood == Spec /\ LocalsMerged => LiveEntriesStay
<1> DEFINE Kept(i) == /\ i \in 1..Len(table')
                      /\ table'[i].gen = table[i].gen
                      /\ table'[i].blk = table[i].blk
                      /\ table'[i].off = table[i].off
           Stay == \A i \in 1..Len(table) : CanBeFreed(table[i]) /\ ~ended' =>
                     \/ Kept(i)
                     \/ table[i].src = "heap" /\ table[i].blk \notin heapLive'
                     \/ table[i].src = "local" /\ table[i].blk \notin LiveLocals'
                     \/ table[i].src = "fiber" /\ \A f \in Fibers : fibers'[f].handle # i
<1>1. TypeOK /\ PlacedInv /\ [Next]_vars /\ [LocalsWhole]_vars => [Stay]_vars
  <2> SUFFICES ASSUME TypeOK, PlacedInv, Next, LocalsWhole PROVE Stay
    OBVIOUS
  <2>0. InPlace(table, fibers) BY DEF PlacedInv
  <2>1. SUFFICES ASSUME NEW i \in 1..Len(table), CanBeFreed(table[i]), ~ended'
                 PROVE  \/ i \in 1..Len(table') /\ Stays(table'[i], table[i])
                        \/ table[i].src = "local" /\ table[i].blk \notin LiveLocals'
                        \/ table[i].src = "fiber" /\ \A f \in Fibers : fibers'[f].handle # i
    BY DEF Stays
  <2>2. ASSUME NEW size \in StaticSizes, AddStatic(size)
        PROVE  i \in 1..Len(table') /\ Stays(table'[i], table[i])
    BY <2>2, AppendStays DEF AddStatic, Push
  <2>3. ASSUME NEW size, PushHeap(size)
        PROVE  i \in 1..Len(table') /\ Stays(table'[i], table[i])
    BY <2>3, AppendStays DEF PushHeap, Push
  <2>4. ASSUME NEW f \in Fibers, CreateFiber(f)
        PROVE  i \in 1..Len(table') /\ Stays(table'[i], table[i])
    BY <2>4, AppendStays DEF CreateFiber, Push
  <2>5. ASSUME NEW slots, table' = MarkFreed(slots)
        PROVE  i \in 1..Len(table') /\ Stays(table'[i], table[i])
    BY <2>5, MarkFreedStays
  <2>6. ASSUME UNCHANGED table PROVE i \in 1..Len(table') /\ Stays(table'[i], table[i])
    BY <2>6 DEF Stays
  <2>7. CASE \/ \E size \in HeapSizes : HeapAlloc(size)
             \/ \E a \in Addresses : TransferLocal(a)
    BY <2>3, <2>7 DEF HeapAlloc, TransferLocal
  <2>8. CASE \/ \E a \in Addresses : HeapFree(a)
             \/ \E unreachable \in SUBSET (1..Len(table)) : Collect(unreachable)
    BY <2>5, <2>8 DEF HeapFree, Collect
  <2>9. CASE \E a \in Addresses : Poison(a) \/ Unpoison(a) BY <2>9, PoisonStays
  <2>10. CASE \E a \in Addresses : \E offset \in SplitOffsets, moved \in BOOLEAN : Split(a, offset, moved)
    BY <2>10, SplitKept
  <2>11. CASE \E a, a2 \in Addresses : Merge(a, a2) BY <2>11, MergeStays
  <2>12. CASE \E f \in Fibers : DestroyFiber(f) BY <2>0, <2>1, <2>12, DestroyStays
  <2>13. CASE \E f \in Fibers : ReturnFree(f) BY <2>0, <2>1, <2>13, ReturnStays
  <2>14. CASE GrowTable \/ \E f \in Fibers : \E n \in LocalCounts : Call(f, n)
    BY <2>6, <2>14 DEF GrowTable, Call
  <2>15. CASE SetupLocals BY <2>15, SetUpStays
  <2>16. CASE Cleanup BY <2>1, <2>16 DEF Cleanup
  <2> QED BY <2>2, <2>4, <2>7, <2>8, <2>9, <2>10, <2>11, <2>12, <2>13, <2>14, <2>15, <2>16 DEF Next
<1>2. ASSUME "local" \notin SplitSources PROVE Spec => LiveEntriesStay
  <2>1. TypeOK /\ PlacedInv => [LocalsWhole]_vars BY <1>2, NoneSplit DEF PlacedInv
  <2>2. Spec => [](TypeOK /\ PlacedInv) BY <1>2, PlacedHolds DEF LocalsMerged
  <2> QED BY <1>1, <2>1, <2>2, PTL DEF Spec, LiveEntriesStay
<1>3. ASSUME InOrder PROVE Spec /\ [][LocalsWhole]_vars => LiveEntriesStay
  <2>1. Spec /\ [][LocalsWhole]_vars => [](TypeOK /\ PlacedInv)
        BY <1>3, PlacedHolds DEF LocalsMerged
  <2> QED BY <1>1, <2>1, PTL DEF Spec, LiveEntriesStay
<1> QED BY <1>2, <1>3 DEF LocalsMerged
=============================================================================
