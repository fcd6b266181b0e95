----------------------------- MODULE StacksProofs -----------------------------
(***************************************************************************)
(* Theorems about PageAllocator and Stacks, for every number of fibers and *)
(* every size of pages, frames and stacks: no page is in two places or     *)
(* lost, the clients hold what they were given, and frames and values have *)
(* room.                                                                   *)
(*                                                                         *)
(* First what the allocator does to its state, whatever a client           *)
(* allocates, extends and deallocates.  The lemmas about one stack are     *)
(* about its record, before and after a step.                              *)
(***************************************************************************)
EXTENDS Stacks, SequenceTheorems, FiniteSetTheorems, WellFoundedInduction, TLAPS

-----------------------------------------------------------------------------
(* The allocator *)

(* The types of the fields that matter here. *)
IsState(s) ==
    /\ s.free \in Seq(Blocks)
    /\ s.mapped \subseteq 1..MaxPage
    /\ s.owned \subseteq Blocks

Apart(b, c) == PagesOf(b) \cap PagesOf(c) = {}

(* NoPageTwice for the state s; and that the pages are mapped, so that those *)
(* which mmap and mremap add are in no other block.                          *)
ListApart(s)  == \A i, j \in 1..Len(s.free) : i # j => Apart(s.free[i], s.free[j])
OwnedApart(s) == \A b, c \in s.owned : b # c => Apart(b, c)
BothApart(s)  == \A b \in s.owned, i \in 1..Len(s.free) : Apart(b, s.free[i])
ListMapped(s)  == \A i \in 1..Len(s.free) : PagesOf(s.free[i]) \subseteq s.mapped
OwnedMapped(s) == \A b \in s.owned : PagesOf(b) \subseteq s.mapped

Sound(s) ==
    /\ ~s.released
    /\ IsState(s)
    /\ ListApart(s)
    /\ OwnedApart(s)
    /\ BothApart(s)
    /\ ListMapped(s)
    /\ OwnedMapped(s)

-----------------------------------------------------------------------------

(* Taking a node out of the list leaves the others.                          *)
LEMMA UnlinkedNodes ==
  ASSUME NEW free \in Seq(Blocks), NEW i \in 1..Len(free)
  PROVE  /\ Unlinked(free, i) \in Seq(Blocks)
         /\ Len(Unlinked(free, i)) = Len(free) - 1
         /\ \A j \in 1..Len(Unlinked(free, i)) :
               Unlinked(free, i)[j] = IF j < i THEN free[j] ELSE free[j + 1]
  <1> DEFINE n == Len(free) - 1
  <1>1. n \in Nat /\ Len(free) \in Nat
    OBVIOUS
  <1>2. Unlinked(free, i) \in [1..n -> Blocks]
    BY <1>1 DEF Unlinked
  <1>3. Unlinked(free, i) \in Seq(Blocks) /\ Len(Unlinked(free, i)) = n
    BY <1>1, <1>2
  <1> QED
    BY <1>1, <1>3 DEF Unlinked

(* allocate, from the cache or from the operating system. *)
LEMMA AllocatedSound ==
  ASSUME NEW s, Sound(s), NEW n \in 1..MaxPage, NEW r \in Allocated(s, n)
  PROVE  Sound(r.state) /\ r.block \in r.state.owned
  <1> USE DEF Sound, IsState, ListApart, OwnedApart, BothApart, ListMapped, OwnedMapped
  <1>1. CASE \E i \in FirstFit(s.free, n) :
                r = [block |-> s.free[i],
                     state |-> [free |-> Unlinked(s.free, i), bytes |-> s.bytes, mapped |-> s.mapped,
                                owned |-> s.owned \cup {s.free[i]},
                                released |-> s.released]]
    <2>1. PICK i \in 1..Len(s.free) :
                r = [block |-> s.free[i],
                     state |-> [free |-> Unlinked(s.free, i), bytes |-> s.bytes, mapped |-> s.mapped,
                                owned |-> s.owned \cup {s.free[i]},
                                released |-> s.released]]
      BY <1>1 DEF FirstFit
    <2> DEFINE t == r.state
               b == s.free[i]
    <2>2. /\ t.free = Unlinked(s.free, i)
          /\ t.bytes = s.bytes
          /\ t.mapped = s.mapped
          /\ t.owned = s.owned \cup {b}
      BY <2>1
    <2>3. /\ t.free \in Seq(Blocks)
          /\ Len(t.free) = Len(s.free) - 1
          /\ \A j \in 1..Len(t.free) : t.free[j] = IF j < i THEN s.free[j] ELSE s.free[j + 1]
      BY <2>2, UnlinkedNodes
    <2>4. b \in Blocks
      OBVIOUS
    <2>5. \A j \in 1..Len(t.free) :
             \E k \in 1..Len(s.free) : k # i /\ t.free[j] = s.free[k] /\ k = IF j < i THEN j ELSE j + 1
      <3> TAKE j \in 1..Len(t.free)
      <3> DEFINE k == IF j < i THEN j ELSE j + 1
      <3>1. k \in 1..Len(s.free) /\ k # i
        BY <2>3
      <3> QED
        BY <2>3, <3>1
    <2>6. ListApart(t)
      <3> SUFFICES ASSUME NEW j \in 1..Len(t.free), NEW k \in 1..Len(t.free), j # k
                   PROVE  Apart(t.free[j], t.free[k])
        OBVIOUS
      <3>1. PICK p \in 1..Len(s.free) : t.free[j] = s.free[p] /\ p = IF j < i THEN j ELSE j + 1
        BY <2>5
      <3>2. PICK q \in 1..Len(s.free) : t.free[k] = s.free[q] /\ q = IF k < i THEN k ELSE k + 1
        BY <2>5
      <3>3. p # q
        BY <3>1, <3>2
      <3> QED
        BY <3>1, <3>2, <3>3
    <2>7. OwnedApart(t)
      BY <2>2 DEF Apart
    <2>8. BothApart(t)
      BY <2>2, <2>5
    <2>9. ListMapped(t) /\ OwnedMapped(t)
      BY <2>2, <2>5
    <2> QED
      BY <2>1, <2>2, <2>3, <2>4, <2>6, <2>7, <2>8, <2>9
  <1>2. CASE \E b \in Mappable(s, n) :
                r = [block |-> b,
                     state |-> [free |-> s.free, bytes |-> s.bytes + n,
                                mapped |-> s.mapped \cup PagesOf(b), owned |-> s.owned \cup {b},
                                released |-> s.released]]
    <2>1. PICK b \in Mappable(s, n) :
                r = [block |-> b,
                     state |-> [free |-> s.free, bytes |-> s.bytes + n,
                                mapped |-> s.mapped \cup PagesOf(b), owned |-> s.owned \cup {b},
                                released |-> s.released]]
      BY <1>2
    <2> DEFINE t == r.state
    <2>2. /\ t.free = s.free
          /\ t.mapped = s.mapped \cup PagesOf(b)
          /\ t.owned = s.owned \cup {b}
          /\ r.block = b
      BY <2>1
    <2>3. b \in Blocks /\ PagesOf(b) \subseteq 1..MaxPage /\ PagesOf(b) \cap s.mapped = {}
      BY DEF Mappable
    <2>4. IsState(t) /\ ListApart(t) /\ ListMapped(t) /\ OwnedMapped(t)
      BY <2>2, <2>3
    <2>5. OwnedApart(t) /\ BothApart(t)
      BY <2>2, <2>3 DEF Apart
    <2>6. ~t.released
      BY <2>1
    <2> QED
      BY <2>2, <2>4, <2>5, <2>6
  <1>3. \/ \E i \in FirstFit(s.free, n) :
                r = [block |-> s.free[i],
                     state |-> [free |-> Unlinked(s.free, i), bytes |-> s.bytes, mapped |-> s.mapped,
                                owned |-> s.owned \cup {s.free[i]},
                                released |-> s.released]]
        \/ \E b \in Mappable(s, n) :
                r = [block |-> b,
                     state |-> [free |-> s.free, bytes |-> s.bytes + n,
                                mapped |-> s.mapped \cup PagesOf(b), owned |-> s.owned \cup {b},
                                released |-> s.released]]
    BY DEF Allocated
  <1> QED
    BY <1>1, <1>2, <1>3

(* try_extend: the pages that are added were not mapped. *)
LEMMA ExtendedSound ==
  ASSUME NEW s, Sound(s), NEW b \in s.owned, NEW n \in 1..MaxPage, NEW r \in Extended(s, b, n)
  PROVE  Sound(r.state) /\ r.block \in r.state.owned
  <1> USE DEF Sound, IsState, ListApart, OwnedApart, BothApart, ListMapped, OwnedMapped
  <1>1. PICK big \in Extensions(s, b, n) :
              r = [block |-> big,
                   state |-> [free |-> s.free, bytes |-> ExtendedBytes(s, b, n),
                              mapped |-> s.mapped \cup PagesOf(big),
                              owned |-> (s.owned \ {b}) \cup {big},
                              released |-> s.released]]
    BY DEF Extended
  <1> DEFINE t == r.state
  <1>2. /\ t.free = s.free
        /\ t.mapped = s.mapped \cup PagesOf(big)
        /\ t.owned = (s.owned \ {b}) \cup {big}
        /\ r.block = big
    BY <1>1
  <1>3. /\ big \in Blocks
        /\ PagesOf(big) \subseteq 1..MaxPage
        /\ (PagesOf(big) \ PagesOf(b)) \cap s.mapped = {}
    BY DEF Extensions
  <1>4. IsState(t) /\ ListApart(t) /\ ListMapped(t) /\ OwnedMapped(t)
    BY <1>2, <1>3
  (* A page of the extended block is one of b's, or no other block has it.   *)
  <1>5. \A c \in s.owned \ {b} : Apart(c, big)
    BY <1>3 DEF Apart
  <1>6. \A i \in 1..Len(s.free) : Apart(big, s.free[i])
    BY <1>3 DEF Apart
  <1>7. OwnedApart(t) /\ BothApart(t)
    BY <1>2, <1>5, <1>6 DEF Apart
  <1>8. ~t.released
    BY <1>1
  <1> QED
    BY <1>2, <1>4, <1>7, <1>8

(* A node and the block that begins where it ends, as one node.              *)
LEMMA MergedNode ==
  ASSUME NEW c \in Blocks, NEW b \in Blocks, c.start + c.size = b.start,
         PagesOf(b) \subseteq 1..MaxPage
  PROVE  LET m == [c EXCEPT !.size = @ + b.size]
         IN  m \in Blocks /\ PagesOf(m) = PagesOf(c) \cup PagesOf(b)
  <1> DEFINE m == [c EXCEPT !.size = @ + b.size]
  <1>1. /\ c.start \in 1..MaxPage /\ c.size \in 1..MaxPage
        /\ b.start \in 1..MaxPage /\ b.size \in 1..MaxPage
    BY DEF Blocks
  <1>2. m.start = c.start /\ m.size = c.size + b.size /\ m = [start |-> c.start, size |-> c.size + b.size]
    BY DEF Blocks
  <1>3. b.start + b.size - 1 \in PagesOf(b)
    BY <1>1, PageAssumption DEF PagesOf
  <1>4. c.size + b.size \in 1..MaxPage
    BY <1>1, <1>3, PageAssumption
  <1>5. PagesOf(m) = PagesOf(c) \cup PagesOf(b)
    BY <1>1, <1>2, PageAssumption DEF PagesOf
  <1> QED
    BY <1>1, <1>2, <1>4, <1>5 DEF Blocks

(* The pages of an owned block are in the address space. *)
LEMMA PagesInSpace ==
  ASSUME NEW s, Sound(s), NEW b \in s.owned
  PROVE  b \in Blocks /\ PagesOf(b) \subseteq 1..MaxPage
  BY DEF Sound, IsState, OwnedMapped

(* deallocate, merged with a node of the list or as a new node.              *)
LEMMA DeallocatedSound ==
  ASSUME NEW s, Sound(s), NEW b \in s.owned
  PROVE  Sound(Deallocated(s, b))
  <1> DEFINE t == Deallocated(s, b)
             n == Len(s.free)
  <1>1. /\ t.free = FreeWith(s.free, b)
        /\ t.mapped = s.mapped
        /\ t.owned = s.owned \ {b}
    BY DEF Deallocated
  <1> USE DEF Sound, IsState, ListApart, OwnedApart, BothApart, ListMapped, OwnedMapped
  <1>2. b \in Blocks /\ PagesOf(b) \subseteq 1..MaxPage /\ n \in Nat
    BY PagesInSpace
  <1>3. \A c \in t.owned : Apart(c, b)
    BY <1>1
  <1>a. ~t.released
    BY DEF Deallocated
  <1>4. CASE MergesWith(s.free, b) = {}
    <2>1. t.free = <<b>> \o s.free
      BY <1>1, <1>4 DEF FreeWith
    <2>2. /\ t.free \in Seq(Blocks)
          /\ Len(t.free) = n + 1
          /\ t.free[1] = b
          /\ \A j \in 1..Len(t.free) : j # 1 => j - 1 \in 1..n /\ t.free[j] = s.free[j - 1]
      BY <1>2, <2>1
    <2>3. ListApart(t)
      <3> SUFFICES ASSUME NEW j \in 1..Len(t.free), NEW k \in 1..Len(t.free), j # k
                   PROVE  Apart(t.free[j], t.free[k])
        OBVIOUS
      <3>1. CASE j = 1
        BY <2>2, <3>1 DEF Apart
      <3>2. CASE k = 1
        BY <2>2, <3>2 DEF Apart
      <3>3. CASE j # 1 /\ k # 1
        <4>1. /\ j - 1 \in 1..n /\ t.free[j] = s.free[j - 1]
              /\ k - 1 \in 1..n /\ t.free[k] = s.free[k - 1]
          BY <2>2, <3>3
        <4>2. j - 1 # k - 1
          OBVIOUS
        <4> QED
          BY <4>1, <4>2
      <3> QED
        BY <3>1, <3>2, <3>3
    <2>4. BothApart(t)
      BY <1>1, <1>3, <2>2
    <2>5. OwnedApart(t) /\ ListMapped(t) /\ OwnedMapped(t)
      BY <1>1, <2>2
    <2> QED
      BY <1>1, <1>a, <2>2, <2>3, <2>4, <2>5
  <1>5. CASE MergesWith(s.free, b) # {}
    <2>1. PICK i \in MergesWith(s.free, b) : TRUE
      BY <1>5
    <2>2. i \in 1..n /\ s.free[i].start + s.free[i].size = b.start
      BY DEF MergesWith
    <2>3. MergesWith(s.free, b) = {i}
      <3> SUFFICES ASSUME NEW k \in MergesWith(s.free, b) PROVE k = i
        BY <2>1
      <3>1. ~(k < i) /\ ~(i < k)
        BY <1>2, <2>1 DEF MergesWith
      <3> QED
        BY <1>2, <2>2, <3>1 DEF MergesWith
    <2> DEFINE m == [s.free[i] EXCEPT !.size = @ + b.size]
    <2>4. m \in Blocks /\ PagesOf(m) = PagesOf(s.free[i]) \cup PagesOf(b)
      BY <1>2, <2>2, MergedNode
    <2>5. t.free = [j \in 1..n |-> IF j = i THEN m ELSE s.free[j]]
      BY <1>1, <1>5, <2>3 DEF FreeWith
    <2>6. /\ t.free \in Seq(Blocks)
          /\ Len(t.free) = n
          /\ t.free[i] = m
          /\ \A j \in 1..n : j # i => t.free[j] = s.free[j]
      <3>1. t.free \in [1..n -> Blocks]
        BY <2>4, <2>5
      <3> QED
        BY <1>2, <2>2, <2>5, <3>1
    <2>7. \A j \in 1..n : j # i => Apart(t.free[j], m) /\ Apart(m, t.free[j])
      BY <2>2, <2>4, <2>6 DEF Apart
    <2>8. ListApart(t)
      BY <2>6, <2>7
    <2>9. BothApart(t)
      <3> SUFFICES ASSUME NEW c \in t.owned, NEW j \in 1..n PROVE Apart(c, t.free[j])
        BY <2>6
      <3>1. CASE j = i
        BY <1>1, <1>3, <2>2, <2>4, <2>6, <3>1 DEF Apart
      <3>2. CASE j # i
        BY <1>1, <2>6, <3>2
      <3> QED
        BY <3>1, <3>2
    <2>10. OwnedApart(t) /\ ListMapped(t) /\ OwnedMapped(t)
      BY <1>1, <2>2, <2>4, <2>6
    <2> QED
      BY <1>1, <1>a, <2>6, <2>8, <2>9, <2>10
  <1> QED
    BY <1>4, <1>5

-----------------------------------------------------------------------------
(* Numbers of pages *)

(* What holds of 0, and of a number's successor with it, holds of all.       *)
LEMMA Induction ==
  ASSUME NEW S, 0 \in S, \A n \in Nat : n \in S => n + 1 \in S
  PROVE  Nat \subseteq S
  <1> DEFINE T == Nat \ S
             R == OpToRel(<, Nat)
  <1>1. SUFFICES ASSUME T # {} PROVE FALSE
    OBVIOUS
  <1>2. IsWellFoundedOn(R, Nat)
    BY NatLessThanWellFounded
  <1>3. \A m, k \in Nat : k < m => <<k, m>> \in R
    <2> TAKE m, k \in Nat
    <2>1. <<k, m>> \in Nat \X Nat
      OBVIOUS
    <2> QED
      BY <2>1 DEF OpToRel
  <1>4. T \subseteq Nat
    OBVIOUS
  <1> HIDE DEF R, T
  <1>5. PICK m \in T : \A k \in T : <<k, m>> \notin R
    BY <1>1, <1>2, <1>4, WFMin
  <1>6. m \in Nat /\ m \notin S /\ \A k \in Nat : k < m => k \in S
    BY <1>3, <1>5 DEF T
  <1>7. m # 0 /\ m - 1 \in Nat /\ m - 1 < m /\ m - 1 + 1 = m
    BY <1>6
  <1> QED
    BY <1>6, <1>7

LEMMA PagesCount ==
  ASSUME NEW b \in Blocks
  PROVE  /\ IsFiniteSet(PagesOf(b))
         /\ Cardinality(PagesOf(b)) = b.size
         /\ b.start \in PagesOf(b)
         /\ b.size \in Nat \ {0}
  <1>1. b.start \in 1..MaxPage /\ b.size \in 1..MaxPage
    BY DEF Blocks
  <1> DEFINE l == b.start
             h == b.start + b.size - 1
  <1>2. l \in Int /\ h \in Int /\ ~(l > h) /\ h - l + 1 = b.size /\ PagesOf(b) = l..h
    BY <1>1, PageAssumption DEF PagesOf
  <1> HIDE DEF l, h
  <1>3. IsFiniteSet(l..h) /\ Cardinality(l..h) = b.size
    BY <1>2, FS_Interval
  <1> QED
    BY <1>1, <1>2, <1>3, PageAssumption DEF l

-----------------------------------------------------------------------------
(* What is mapped, and how much *)

Covered(blocks) == UNION {PagesOf(b) : b \in blocks}

(* NoPageLost for the state s. *)
Accounted(s) ==
    /\ s.mapped = Covered(FreeBlocks(s) \cup s.owned)
    /\ s.bytes = Cardinality(s.mapped)

LEMMA MappedFinite ==
  ASSUME NEW s, Sound(s)
  PROVE  IsFiniteSet(s.mapped) /\ Cardinality(s.mapped) \in Nat
  <1>1. s.mapped \in SUBSET (1..MaxPage)
    BY DEF Sound, IsState
  <1>2. IsFiniteSet(1..MaxPage)
    BY PageAssumption, FS_Interval
  <1> QED
    BY <1>1, <1>2, FS_Subset, FS_CardinalityType

LEMMA AllocatedAccounted ==
  ASSUME NEW s, Sound(s), Accounted(s), NEW n \in 1..MaxPage, NEW r \in Allocated(s, n)
  PROVE  Accounted(r.state)
  <1>1. CASE \E i \in FirstFit(s.free, n) :
                r = [block |-> s.free[i],
                     state |-> [free |-> Unlinked(s.free, i), bytes |-> s.bytes, mapped |-> s.mapped,
                                owned |-> s.owned \cup {s.free[i]},
                                released |-> s.released]]
    <2>1. PICK i \in 1..Len(s.free) :
                r = [block |-> s.free[i],
                     state |-> [free |-> Unlinked(s.free, i), bytes |-> s.bytes, mapped |-> s.mapped,
                                owned |-> s.owned \cup {s.free[i]},
                                released |-> s.released]]
      BY <1>1 DEF FirstFit
    <2> DEFINE t == r.state
    <2>2. t.free = Unlinked(s.free, i) /\ t.bytes = s.bytes /\ t.mapped = s.mapped /\ t.owned = s.owned \cup {s.free[i]}
      BY <2>1
    <2>3. s.free \in Seq(Blocks) /\ Len(s.free) \in Nat
      BY DEF Sound, IsState
    <2>4. /\ Len(t.free) = Len(s.free) - 1
          /\ \A j \in 1..Len(t.free) : t.free[j] = IF j < i THEN s.free[j] ELSE s.free[j + 1]
      BY <2>2, <2>3, UnlinkedNodes
    <2>5. \A j \in 1..Len(t.free) : t.free[j] \in FreeBlocks(s)
      <3> TAKE j \in 1..Len(t.free)
      <3>1. j \in 1..Len(s.free) /\ j + 1 \in 1..Len(s.free)
        BY <2>3, <2>4
      <3> QED
        BY <2>4, <3>1 DEF FreeBlocks
    <2>6. \A k \in 1..Len(s.free) : k # i => s.free[k] \in FreeBlocks(t)
      <3> TAKE k \in 1..Len(s.free)
      <3> HAVE k # i
      <3>1. CASE k < i
        <4>1. k \in 1..Len(t.free) /\ t.free[k] = s.free[k]
          BY <2>3, <2>4, <3>1
        <4> QED
          BY <4>1 DEF FreeBlocks
      <3>2. CASE k > i
        <4>1. k - 1 \in 1..Len(t.free) /\ ~(k - 1 < i) /\ k - 1 + 1 = k
          BY <2>3, <2>4, <3>2
        <4>2. t.free[k - 1] = s.free[k]
          BY <2>4, <4>1
        <4> QED
          BY <4>1, <4>2 DEF FreeBlocks
      <3> QED
        BY <2>3, <3>1, <3>2
    <2>7. FreeBlocks(t) \cup t.owned = FreeBlocks(s) \cup s.owned
      BY <2>2, <2>5, <2>6 DEF FreeBlocks
    <2> QED
      BY <2>2, <2>7 DEF Accounted
  <1>2. CASE \E b \in Mappable(s, n) :
                r = [block |-> b,
                     state |-> [free |-> s.free, bytes |-> s.bytes + n,
                                mapped |-> s.mapped \cup PagesOf(b), owned |-> s.owned \cup {b},
                                released |-> s.released]]
    <2>1. PICK b \in Mappable(s, n) :
                r = [block |-> b,
                     state |-> [free |-> s.free, bytes |-> s.bytes + n,
                                mapped |-> s.mapped \cup PagesOf(b), owned |-> s.owned \cup {b},
                                released |-> s.released]]
      BY <1>2
    <2> DEFINE t == r.state
               M == s.mapped
               P == PagesOf(b)
    <2>2. t.free = s.free /\ t.bytes = s.bytes + n /\ t.mapped = M \cup P /\ t.owned = s.owned \cup {b}
      BY <2>1
    <2>3. b \in Blocks /\ b.size = n /\ M \cap P = {}
      BY DEF Mappable
    <2>4. IsFiniteSet(M) /\ Cardinality(M) \in Nat /\ IsFiniteSet(P) /\ Cardinality(P) = n /\ n \in Nat
      BY <2>3, MappedFinite, PagesCount
    <2>5. Cardinality(M \cup P) = Cardinality(M) + Cardinality(P) - Cardinality(M \cap P)
      BY <2>4, FS_Union
    <2>6. Cardinality(M \cap P) = 0
      BY <2>3, FS_EmptySet
    <2>7. t.bytes = Cardinality(t.mapped)
      BY <2>2, <2>4, <2>5, <2>6 DEF Accounted
    <2>8. t.mapped = Covered(FreeBlocks(t) \cup t.owned)
      BY <2>2 DEF Accounted, Covered, FreeBlocks
    <2> QED
      BY <2>7, <2>8 DEF Accounted
  <1>3. \/ \E i \in FirstFit(s.free, n) :
                r = [block |-> s.free[i],
                     state |-> [free |-> Unlinked(s.free, i), bytes |-> s.bytes, mapped |-> s.mapped,
                                owned |-> s.owned \cup {s.free[i]},
                                released |-> s.released]]
        \/ \E b \in Mappable(s, n) :
                r = [block |-> b,
                     state |-> [free |-> s.free, bytes |-> s.bytes + n,
                                mapped |-> s.mapped \cup PagesOf(b), owned |-> s.owned \cup {b},
                                released |-> s.released]]
    BY DEF Allocated
  <1> QED
    BY <1>1, <1>2, <1>3

LEMMA ExtendedAccounted ==
  ASSUME NEW s, Sound(s), Accounted(s), NEW b \in s.owned, NEW n \in 1..MaxPage, NEW r \in Extended(s, b, n)
  PROVE  Accounted(r.state)
  <1>1. PICK big \in Extensions(s, b, n) :
              r = [block |-> big,
                   state |-> [free |-> s.free, bytes |-> ExtendedBytes(s, b, n),
                              mapped |-> s.mapped \cup PagesOf(big),
                              owned |-> (s.owned \ {b}) \cup {big},
                              released |-> s.released]]
    BY DEF Extended
  <1> DEFINE t == r.state
             M == s.mapped
             P == PagesOf(b)
             Q == PagesOf(big)
             D == Q \ P
  <1>2. /\ t.free = s.free
        /\ t.bytes = s.bytes + n - b.size
        /\ t.mapped = M \cup Q
        /\ t.owned = (s.owned \ {b}) \cup {big}
    BY <1>1 DEF ExtendedBytes
  <1>3. big \in Blocks /\ big.start = b.start /\ big.size = n /\ n >= b.size /\ D \cap M = {}
    BY DEF Extensions
  <1>4. b \in Blocks /\ P \subseteq M
    BY DEF Sound, IsState, OwnedMapped
  <1>5. b.size \in Nat /\ n \in Nat /\ b.start \in Nat
    BY <1>4, PageAssumption DEF Blocks
  <1>6. P \subseteq Q
    BY <1>3, <1>5 DEF PagesOf
  <1>7. /\ IsFiniteSet(M) /\ Cardinality(M) \in Nat
        /\ IsFiniteSet(Q) /\ Cardinality(Q) = n /\ Cardinality(P) = b.size
    BY <1>3, <1>4, MappedFinite, PagesCount
  <1>8. IsFiniteSet(D) /\ Cardinality(D) = n - b.size
    <2>1. Q \cap P = P
      BY <1>6
    <2>2. IsFiniteSet(D) /\ Cardinality(D) = Cardinality(Q) - Cardinality(Q \cap P)
      BY <1>7, FS_Difference
    <2> QED
      BY <1>7, <2>1, <2>2
  <1>9. M \cup Q = M \cup D /\ M \cap D = {}
    BY <1>3, <1>4
  <1> HIDE DEF D
  <1>10. Cardinality(M \cup D) = Cardinality(M) + (n - b.size)
    <2>1. Cardinality(M \cup D) = Cardinality(M) + Cardinality(D) - Cardinality(M \cap D)
      BY <1>7, <1>8, FS_Union
    <2>2. Cardinality(M \cap D) = 0
      BY <1>9, FS_EmptySet
    <2> QED
      BY <1>5, <1>7, <1>8, <2>1, <2>2
  <1>11. t.bytes = Cardinality(t.mapped)
    BY <1>2, <1>5, <1>7, <1>9, <1>10 DEF Accounted
  <1>12. t.mapped = Covered(FreeBlocks(t) \cup t.owned)
    <2>1. M = Covered((FreeBlocks(s) \cup (s.owned \ {b})) \cup {b})
      BY DEF Accounted
    <2>2. FreeBlocks(t) = FreeBlocks(s)
      BY <1>2 DEF FreeBlocks
    <2> QED
      BY <1>2, <1>6, <2>1, <2>2 DEF Covered
  <1> QED
    BY <1>11, <1>12 DEF Accounted

(* The list covers the block that is given back, merged or not.              *)
LEMMA FreeWithCovers ==
  ASSUME NEW s, Sound(s), NEW b \in s.owned
  PROVE  Covered(FreeBlocks(Deallocated(s, b))) = Covered(FreeBlocks(s)) \cup PagesOf(b)
  <1> DEFINE t == Deallocated(s, b)
             n == Len(s.free)
  <1>1. t.free = FreeWith(s.free, b)
    BY DEF Deallocated
  <1>2. b \in Blocks /\ PagesOf(b) \subseteq 1..MaxPage /\ n \in Nat /\ s.free \in Seq(Blocks)
        /\ \A i \in 1..n : s.free[i] \in Blocks
    BY PagesInSpace DEF Sound, IsState
  <1>3. CASE MergesWith(s.free, b) = {}
    <2>1. t.free = <<b>> \o s.free
      BY <1>1, <1>3 DEF FreeWith
    <2>2. /\ Len(t.free) = n + 1 /\ t.free[1] = b
          /\ \A j \in 1..n : t.free[j + 1] = s.free[j]
          /\ \A j \in 1..n + 1 : j # 1 => j - 1 \in 1..n /\ t.free[j] = s.free[j - 1]
      BY <1>2, <2>1
    <2>3. FreeBlocks(t) \subseteq FreeBlocks(s) \cup {b}
      BY <2>2 DEF FreeBlocks
    <2>4. FreeBlocks(s) \subseteq FreeBlocks(t) /\ b \in FreeBlocks(t)
      <3>1. 1 \in 1..n + 1 /\ \A j \in 1..n : j + 1 \in 1..n + 1
        BY <1>2
      <3> QED
        BY <2>2, <3>1 DEF FreeBlocks
    <2>5. FreeBlocks(t) = FreeBlocks(s) \cup {b}
      BY <2>3, <2>4
    <2> HIDE DEF t
    <2> QED
      BY <2>5 DEF Covered, t
  <1>4. CASE MergesWith(s.free, b) # {}
    <2>1. PICK i \in MergesWith(s.free, b) : TRUE
      BY <1>4
    <2>2. i \in 1..n /\ s.free[i].start + s.free[i].size = b.start
      BY DEF MergesWith
    <2>3. MergesWith(s.free, b) = {i}
      <3> SUFFICES ASSUME NEW k \in MergesWith(s.free, b) PROVE k = i
        BY <2>1
      <3>1. ~(k < i) /\ ~(i < k)
        BY <1>2, <2>1 DEF MergesWith
      <3> QED
        BY <1>2, <2>2, <3>1 DEF MergesWith
    <2> DEFINE m == [s.free[i] EXCEPT !.size = @ + b.size]
    <2>4. PagesOf(m) = PagesOf(s.free[i]) \cup PagesOf(b)
      BY <1>2, <2>2, MergedNode
    <2>5. t.free = [j \in 1..n |-> IF j = i THEN m ELSE s.free[j]]
      BY <1>1, <1>4, <2>3 DEF FreeWith
    <2> HIDE DEF t, m
    <2>6. Len(t.free) = n /\ \A j \in 1..n : t.free[j] = IF j = i THEN m ELSE s.free[j]
      BY <1>2, <2>5
    <2>7. \A x \in PagesOf(s.free[i]) \cup PagesOf(b) : x \in Covered(FreeBlocks(t))
      BY <2>2, <2>4, <2>6 DEF Covered, FreeBlocks
    <2>8. \A j \in 1..n : \A x \in PagesOf(s.free[j]) : x \in Covered(FreeBlocks(t))
      <3> TAKE j \in 1..n
      <3>1. CASE j = i
        BY <2>7, <3>1
      <3>2. CASE j # i
        BY <2>6, <3>2 DEF Covered, FreeBlocks
      <3> QED
        BY <3>1, <3>2
    <2>9. \A j \in 1..n : \A x \in PagesOf(t.free[j]) : x \in Covered(FreeBlocks(s)) \cup PagesOf(b)
      <3> TAKE j \in 1..n
      <3>1. CASE j = i
        BY <2>2, <2>4, <2>6, <3>1 DEF Covered, FreeBlocks
      <3>2. CASE j # i
        BY <2>6, <3>2 DEF Covered, FreeBlocks
      <3> QED
        BY <3>1, <3>2
    <2>10. Covered(FreeBlocks(t)) \subseteq Covered(FreeBlocks(s)) \cup PagesOf(b)
      BY <2>6, <2>9 DEF Covered, FreeBlocks
    <2>11. Covered(FreeBlocks(s)) \cup PagesOf(b) \subseteq Covered(FreeBlocks(t))
      <3>1. Covered(FreeBlocks(s)) \subseteq Covered(FreeBlocks(t))
        <4> SUFFICES ASSUME NEW x \in Covered(FreeBlocks(s)) PROVE x \in Covered(FreeBlocks(t))
          OBVIOUS
        <4>1. PICK j \in 1..n : x \in PagesOf(s.free[j])
          BY DEF Covered, FreeBlocks
        <4> QED
          BY <2>8, <4>1
      <3> QED
        BY <2>7, <3>1
    <2> QED
      BY <2>10, <2>11 DEF t
  <1> QED
    BY <1>3, <1>4

LEMMA DeallocatedAccounted ==
  ASSUME NEW s, Sound(s), Accounted(s), NEW b \in s.owned
  PROVE  Accounted(Deallocated(s, b))
  <1> DEFINE t == Deallocated(s, b)
  <1>1. t.mapped = s.mapped /\ t.bytes = s.bytes /\ t.owned = s.owned \ {b}
    BY DEF Deallocated
  <1>2. Covered(FreeBlocks(t)) = Covered(FreeBlocks(s)) \cup PagesOf(b)
    BY FreeWithCovers
  <1> HIDE DEF t
  <1>3. Covered(FreeBlocks(t) \cup t.owned) = Covered(FreeBlocks(t)) \cup Covered(s.owned \ {b})
    BY <1>1 DEF Covered
  <1>4. Covered(FreeBlocks(s) \cup s.owned) = Covered(FreeBlocks(s)) \cup PagesOf(b) \cup Covered(s.owned \ {b})
    BY DEF Covered
  <1>5. Accounted(t)
    BY <1>1, <1>2, <1>3, <1>4 DEF Accounted
  <1> QED
    BY <1>5 DEF t

(* The sum of the sizes of the first nodes exists as a function, ...         *)
LEMMA SumExists ==
  ASSUME NEW free
  PROVE  \A n \in Nat : \E sum : sum = [i \in 0..n |-> IF i = 0 THEN 0 ELSE sum[i - 1] + free[i].size]
  <1> DEFINE S == {n \in Nat : \E sum : sum = [i \in 0..n |-> IF i = 0 THEN 0 ELSE sum[i - 1] + free[i].size]}
  <1>1. 0 \in S
    <2> DEFINE f == [i \in 0..0 |-> 0]
    <2>1. f = [i \in 0..0 |-> IF i = 0 THEN 0 ELSE f[i - 1] + free[i].size]
      OBVIOUS
    <2> HIDE DEF f
    <2> QED
      BY <2>1
  <1>2. \A n \in Nat : n \in S => n + 1 \in S
    <2> SUFFICES ASSUME NEW n \in Nat, n \in S PROVE n + 1 \in S
      OBVIOUS
    <2>1. PICK f : f = [i \in 0..n |-> IF i = 0 THEN 0 ELSE f[i - 1] + free[i].size]
      OBVIOUS
    <2> DEFINE g == [i \in 0..n + 1 |-> IF i = n + 1 THEN f[n] + free[n + 1].size ELSE f[i]]
    <2>2. \A i \in 0..n + 1 : g[i] = IF i = 0 THEN 0 ELSE g[i - 1] + free[i].size
      <3> TAKE i \in 0..n + 1
      <3>1. CASE i = n + 1
        <4>1. i - 1 \in 0..n + 1 /\ i - 1 = n /\ n # n + 1 /\ i # 0
          BY <3>1
        <4> QED
          BY <3>1, <4>1
      <3>2. CASE i = 0
        BY <2>1, <3>2
      <3>3. CASE i # n + 1 /\ i # 0
        <4>1. i \in 0..n /\ i - 1 \in 0..n + 1 /\ i - 1 # n + 1
          BY <3>3
        <4>2. f[i] = f[i - 1] + free[i].size
          BY <2>1, <3>3, <4>1
        <4> QED
          BY <3>3, <4>1, <4>2
      <3> QED
        BY <3>1, <3>2, <3>3
    <2>3. g = [i \in 0..n + 1 |-> g[i]]
      OBVIOUS
    <2> HIDE DEF g
    <2>4. g = [i \in 0..n + 1 |-> IF i = 0 THEN 0 ELSE g[i - 1] + free[i].size]
      BY <2>2, <2>3
    <2> QED
      BY <2>4
  <1> HIDE DEF S
  <1>3. Nat \subseteq S
    BY <1>1, <1>2, Induction
  <1> QED
    BY <1>3 DEF S

(* ... and is the number of the pages in nodes that are apart.               *)
LEMMA CachedSizeCounts ==
  ASSUME NEW s, Sound(s)
  PROVE  CachedSize(s.free) = Cardinality(Covered(FreeBlocks(s)))
  <1> DEFINE n == Len(s.free)
             sum == CHOOSE sum : sum = [i \in 0..n |-> IF i = 0 THEN 0 ELSE sum[i - 1] + s.free[i].size]
             C(k) == UNION {PagesOf(s.free[j]) : j \in 1..k}
             S == {k \in Nat : k <= n => IsFiniteSet(C(k)) /\ Cardinality(C(k)) \in Nat /\ sum[k] = Cardinality(C(k))}
  <1>1. n \in Nat /\ \A i \in 1..n : s.free[i] \in Blocks
    BY DEF Sound, IsState
  <1>2. sum = [i \in 0..n |-> IF i = 0 THEN 0 ELSE sum[i - 1] + s.free[i].size]
    BY <1>1, SumExists
  <1>3. CachedSize(s.free) = sum[n]
    BY DEF CachedSize
  <1> HIDE DEF sum, C
  <1>4. 0 \in S
    <2>1. C(0) = {} /\ sum[0] = 0
      BY <1>1, <1>2 DEF C
    <2>2. IsFiniteSet({}) /\ Cardinality({}) = 0
      BY FS_EmptySet
    <2>3. IsFiniteSet(C(0)) /\ Cardinality(C(0)) \in Nat /\ sum[0] = Cardinality(C(0))
      BY <2>1, <2>2
    <2> QED
      BY <2>3
  <1>5. \A k \in Nat : k \in S => k + 1 \in S
    <2> SUFFICES ASSUME NEW k \in Nat, k \in S, k + 1 <= n
                 PROVE  IsFiniteSet(C(k + 1)) /\ Cardinality(C(k + 1)) \in Nat /\ sum[k + 1] = Cardinality(C(k + 1))
      OBVIOUS
    <2> DEFINE c == C(k)
               b == s.free[k + 1]
               p == PagesOf(b)
    <2>1. k + 1 \in 1..n /\ k + 1 \in 0..n /\ k + 1 - 1 = k /\ k <= n
      BY <1>1
    <2>2. IsFiniteSet(c) /\ Cardinality(c) \in Nat /\ sum[k] = Cardinality(c)
      BY <2>1
    <2>3. b \in Blocks
      BY <1>1, <2>1
    <2>4. IsFiniteSet(p) /\ Cardinality(p) = b.size /\ b.size \in Nat
      BY <2>3, PagesCount
    <2>5. sum[k + 1] = sum[k] + b.size
      BY <1>2, <2>1
    <2>6. C(k + 1) = c \cup p
      <3>1. 1..k + 1 = 1..k \cup {k + 1}
        OBVIOUS
      <3> QED
        BY <3>1 DEF C
    <2>7. c \cap p = {}
      <3> SUFFICES ASSUME NEW j \in 1..k PROVE PagesOf(s.free[j]) \cap p = {}
        BY DEF C
      <3>1. j \in 1..n /\ j # k + 1
        BY <1>1, <2>1
      <3> QED
        BY <2>1, <3>1 DEF Sound, ListApart, Apart
    <2> HIDE DEF c, p, b
    <2>8. IsFiniteSet(c \cup p) /\ Cardinality(c \cup p) = Cardinality(c) + Cardinality(p) - Cardinality(c \cap p)
      BY <2>2, <2>4, FS_Union
    <2>9. Cardinality(c \cap p) = 0
      BY <2>7, FS_EmptySet
    <2>10. Cardinality(c \cup p) = sum[k + 1] /\ sum[k + 1] \in Nat
      BY <2>2, <2>4, <2>5, <2>8, <2>9
    <2> QED
      BY <2>6, <2>8, <2>10
  <1> HIDE DEF S
  <1>6. n \in S
    BY <1>1, <1>4, <1>5, Induction
  <1>7. C(n) = Covered(FreeBlocks(s))
    BY DEF Covered, FreeBlocks, C
  <1> QED
    BY <1>1, <1>3, <1>6, <1>7 DEF S

(* The allocator until release, and afterwards: the nodes of the list are    *)
(* unmapped, and were all there was.                                         *)
Pages(s) == Sound(s) /\ Accounted(s)

Gone(s) == s.released /\ ListApart(s) /\ s.owned = {} /\ s.mapped = {} /\ s.bytes = 0

LEMMA ReleasedGone ==
  ASSUME NEW s, Pages(s), s.owned = {}
  PROVE  Gone(Released(s))
  <1> DEFINE t == Released(s)
  <1>1. /\ t.free = s.free /\ t.owned = {} /\ t.released
        /\ t.bytes = s.bytes - CachedSize(s.free)
        /\ t.mapped = s.mapped \ UNION {PagesOf(s.free[i]) : i \in 1..Len(s.free)}
    BY DEF Released
  <1>2. Sound(s) /\ Accounted(s)
    BY DEF Pages
  <1>3. s.mapped = Covered(FreeBlocks(s)) /\ s.bytes = Cardinality(s.mapped) /\ Cardinality(s.mapped) \in Nat
    BY <1>2, MappedFinite DEF Accounted
  <1>4. UNION {PagesOf(s.free[i]) : i \in 1..Len(s.free)} = Covered(FreeBlocks(s))
    BY DEF Covered, FreeBlocks
  <1>5. t.mapped = {} /\ t.bytes = 0
    BY <1>1, <1>2, <1>3, <1>4, CachedSizeCounts
  <1>6. ListApart(t)
    BY <1>1, <1>2 DEF Sound, ListApart
  <1> QED
    BY <1>1, <1>5, <1>6 DEF Gone

-----------------------------------------------------------------------------

(* The invariant holds at first and after every operation. *)
LEMMA PagesInductive == AllocSpec => [](Pages(pages) \/ Gone(pages))
  <1>1. AllocInit => Pages(pages)
    BY FS_EmptySet DEF AllocInit, NoPages, Pages, Sound, IsState, ListApart, OwnedApart, BothApart,
                       ListMapped, OwnedMapped, Accounted, Covered, FreeBlocks
  <1>2. Pages(pages) /\ AllocNext => Pages(pages') \/ Gone(pages')
    <2> SUFFICES ASSUME Pages(pages), AllocNext PROVE Pages(pages') \/ Gone(pages')
      OBVIOUS
    <2> USE DEF Pages
    <2>1. CASE Allocate
      BY <2>1, AllocatedSound, AllocatedAccounted DEF Allocate
    <2>2. CASE TryExtend
      BY <2>2, ExtendedSound, ExtendedAccounted DEF TryExtend
    <2>3. CASE Deallocate
      BY <2>3, DeallocatedSound, DeallocatedAccounted DEF Deallocate
    <2>4. CASE Release
      BY <2>4, ReleasedGone DEF Release
    <2> QED
      BY <2>1, <2>2, <2>3, <2>4 DEF AllocNext
  <1>3. Gone(pages) => ~AllocNext
    BY DEF Gone, AllocNext, Allocate, TryExtend, Deallocate, Release
  <1>4. (Pages(pages) \/ Gone(pages)) /\ [AllocNext]_pages => (Pages(pages) \/ Gone(pages))'
    BY <1>2, <1>3
  <1> QED
    BY <1>1, <1>4, PTL DEF AllocSpec

(* No page is in two nodes of the free list, in two blocks that clients      *)
(* hold, or in one of each: page_allocator.cpp never hands out a page twice, *)
(* for any order of allocate, try_extend and deallocate until release, which *)
(* only the destructor of lauf_vm calls, and any placement by the operating  *)
(* system.                                                                   *)
THEOREM PagesOwnedOnce == AllocSpec => []NoPageTwice
  <1>1. Pages(pages) \/ Gone(pages) => NoPageTwice
    BY DEF Pages, Gone, Sound, NoPageTwice, ListApart, OwnedApart, BothApart, Apart
  <1> QED
    BY <1>1, PagesInductive, PTL

(* No page is lost: what is mapped is in the free list or with a client, and *)
(* _allocated_bytes counts it, however blocks are merged and extended; and   *)
(* release, once nothing is given out, unmaps everything and counts to zero. *)
THEOREM PagesAccounted == AllocSpec => []NoPageLost
  <1>1. Pages(pages) \/ Gone(pages) => NoPageLost
    BY DEF Pages, Gone, Sound, Accounted, NoPageLost, Covered
  <1> QED
    BY <1>1, PagesInductive, PTL

-----------------------------------------------------------------------------
(* The invariant *)

Chunks == [page : Int, block : Nat]
Frames == [chunk : Nat, at : Nat, size : Nat, depth : Nat, need : Nat]

StackRecords == [status : {"absent", "live", "overflow"}, chunks : Seq(Chunks), capacity : Nat,
                 frames : Seq(Frames), values : Blocks \cup {NoBlock}]

(* FramesInChunks and ValuesFit, of one stack.                               *)
FramesFit(st) ==
    \A d \in 1..Len(st.frames) :
        /\ st.frames[d].chunk \in 1..Len(st.chunks)
        /\ st.frames[d].at >= ChunkHeader
        /\ st.frames[d].at + st.frames[d].size <= PageSize
        /\ \A e \in d + 1..Len(st.frames) :
              \/ st.frames[e].chunk > st.frames[d].chunk
              \/ /\ st.frames[e].chunk = st.frames[d].chunk
                 /\ st.frames[e].at >= st.frames[d].at + st.frames[d].size

Room(st) == st.values.size * ValuesPerPage

HasRoom(st) ==
    \A d \in 2..Len(st.frames) : st.frames[d].depth + st.frames[d].need + Reserved <= Room(st)

StackOK(st) ==
    /\ st \in StackRecords
    /\ st.status # "absent" =>
          st.values \in Blocks /\ st.frames # <<>> /\ FramesFit(st) /\ HasRoom(st)

(* The blocks of one stack, each of which it has once.                       *)
BlocksIn(st) == {BlockAt(st.chunks[i]) : i \in Firsts(st.chunks)} \cup {st.values}

Distinct(st) ==
    /\ \A i, j \in Firsts(st.chunks) : i # j => BlockAt(st.chunks[i]) # BlockAt(st.chunks[j])
    /\ \A i \in Firsts(st.chunks) : BlockAt(st.chunks[i]) # st.values

(* What a fiber holds, in a table of stacks.                                 *)
Has(st) == IF st.status = "absent" THEN {} ELSE BlocksIn(st)

StacksIn(table) ==
    /\ table \in [Fibers -> StackRecords]
    /\ \A f \in Fibers : StackOK(table[f])

CallIn(table, call) ==
    call # Idle => /\ call \in [fiber : Fibers, size : FrameSizes, need : Needs, used : Nat]
                   /\ table[call.fiber].status = "live"

(* HeldIsOwned, and what it needs: nothing is held twice.                    *)
HeldIn(owned, table, a) ==
    /\ a \in Blocks \cup {NoBlock}
    /\ \A b : b \in owned <=> (\E f \in Fibers : b \in Has(table[f])) \/ (b = a /\ b # NoBlock)
    /\ \A f, g \in Fibers : f # g => Has(table[f]) \cap Has(table[g]) = {}
    /\ \A f \in Fibers : a \notin Has(table[f])
    /\ \A f \in Fibers : table[f].status # "absent" => Distinct(table[f])

InvIn(s, table, a, call) ==
    /\ Pages(s)
    /\ StacksIn(table)
    /\ CallIn(table, call)
    /\ HeldIn(s.owned, table, a)

Inv == InvIn(pages, stacks, array, calling)

(* After the destructor of the VM. *)
Over ==
    /\ ended /\ calling = Idle
    /\ Gone(pages) /\ array = NoBlock
    /\ stacks \in [Fibers -> StackRecords]
    /\ \A f \in Fibers : stacks[f].status = "absent"

-----------------------------------------------------------------------------
(* The calls of the allocator *)

LEMMA NoPagesFine == Pages(NoPages) /\ NoPages.owned = {}
BY FS_EmptySet DEF Pages, NoPages, Sound, IsState, ListApart, OwnedApart, BothApart, ListMapped, OwnedMapped,
                   Accounted, Covered, FreeBlocks

LEMMA AllocatedPages ==
    ASSUME NEW s, Pages(s), NEW n \in Nat \ {0}, NEW r \in Allocated(s, n)
    PROVE  /\ Pages(r.state)
           /\ r.block \in Blocks /\ r.block.size >= n
           /\ r.block \notin s.owned
           /\ r.state.owned = s.owned \cup {r.block}
<1>0. Sound(s) /\ Accounted(s) BY DEF Pages
<1>1. \/ \E i \in FirstFit(s.free, n) :
                r = [block |-> s.free[i],
                     state |-> [free |-> Unlinked(s.free, i), bytes |-> s.bytes, mapped |-> s.mapped,
                                owned |-> s.owned \cup {s.free[i]},
                                released |-> s.released]]
      \/ \E b \in Mappable(s, n) :
                r = [block |-> b,
                     state |-> [free |-> s.free, bytes |-> s.bytes + n,
                                mapped |-> s.mapped \cup PagesOf(b), owned |-> s.owned \cup {b},
                                released |-> s.released]]
  BY DEF Allocated
<1>2. /\ r.block \in Blocks /\ r.block.size >= n
      /\ r.block \notin s.owned
      /\ r.state.owned = s.owned \cup {r.block}
  <2>1. CASE \E i \in FirstFit(s.free, n) :
                r = [block |-> s.free[i],
                     state |-> [free |-> Unlinked(s.free, i), bytes |-> s.bytes, mapped |-> s.mapped,
                                owned |-> s.owned \cup {s.free[i]},
                                released |-> s.released]]
    <3>1. PICK i \in FirstFit(s.free, n) : r.block = s.free[i] /\ r.state.owned = s.owned \cup {s.free[i]}
      BY <2>1
    <3>2. i \in 1..Len(s.free) /\ s.free[i].size >= n BY DEF FirstFit
    <3>3. s.free[i] \in Blocks BY <1>0, <3>2 DEF Sound, IsState
    <3>4. s.free[i] \notin s.owned
      <4>1. s.free[i].start \in PagesOf(s.free[i]) BY <3>3, PagesCount
      <4> QED BY <1>0, <3>2, <4>1 DEF Sound, BothApart, Apart
    <3> QED BY <3>1, <3>2, <3>3, <3>4
  <2>2. CASE \E b \in Mappable(s, n) :
                r = [block |-> b,
                     state |-> [free |-> s.free, bytes |-> s.bytes + n,
                                mapped |-> s.mapped \cup PagesOf(b), owned |-> s.owned \cup {b},
                                released |-> s.released]]
    <3>1. PICK b \in Mappable(s, n) : r.block = b /\ r.state.owned = s.owned \cup {b} BY <2>2
    <3>2. b \in Blocks /\ b.size = n /\ PagesOf(b) \cap s.mapped = {} BY DEF Mappable
    <3>3. b \notin s.owned
      <4>1. b.start \in PagesOf(b) BY <3>2, PagesCount
      <4> QED BY <1>0, <3>2, <4>1 DEF Sound, OwnedMapped
    <3> QED BY <3>1, <3>2, <3>3
  <2> QED BY <1>1, <2>1, <2>2
<1>3. n \in 1..MaxPage BY <1>2, PageAssumption DEF Blocks
<1> QED BY <1>0, <1>2, <1>3, AllocatedSound, AllocatedAccounted DEF Pages

LEMMA ExtendedPages ==
    ASSUME NEW s, Pages(s), NEW b \in s.owned, NEW n \in Nat, NEW r \in Extended(s, b, n)
    PROVE  /\ Pages(r.state)
           /\ r.block \in Blocks
           /\ r.block \notin s.owned \ {b}
           /\ r.state.owned = (s.owned \ {b}) \cup {r.block}
<1>0. Sound(s) /\ Accounted(s) BY DEF Pages
<1>1. PICK big \in Extensions(s, b, n) : r.block = big /\ r.state.owned = (s.owned \ {b}) \cup {big}
  BY DEF Extended
<1>2. big \in Blocks /\ big.start = b.start /\ big.size = n BY DEF Extensions
<1>3. n \in 1..MaxPage BY <1>2 DEF Blocks
<1>4. \A c \in s.owned \ {b} : c # big
  <2>1. b \in Blocks /\ big.start \in PagesOf(b) BY <1>0, <1>2, PagesCount DEF Sound, IsState
  <2>2. big.start \in PagesOf(big) BY <1>2, PagesCount
  <2> QED BY <1>0, <2>1, <2>2 DEF Sound, OwnedApart, Apart
<1> QED BY <1>0, <1>1, <1>2, <1>3, <1>4, ExtendedSound, ExtendedAccounted DEF Pages

LEMMA DeallocatedPages ==
    ASSUME NEW s, Pages(s), NEW b \in s.owned
    PROVE  Pages(Deallocated(s, b)) /\ Deallocated(s, b).owned = s.owned \ {b}
BY DeallocatedSound, DeallocatedAccounted DEF Pages, Deallocated

(* array::reserve: another block, or the same one extended.                  *)
LEMMA ArrayGrownPages ==
    ASSUME NEW s, Pages(s), array \in Blocks \cup {NoBlock}, array # NoBlock => array \in s.owned,
           NEW r \in ArrayGrown(s)
    PROVE  /\ Pages(r.state)
           /\ r.block \in Blocks
           /\ r.block \notin s.owned \ {array}
           /\ r.state.owned = (s.owned \ {array}) \cup {r.block}
<1>1. CASE array = NoBlock
  <2>1. r \in Allocated(s, 1) /\ 1 \in Nat \ {0} BY <1>1 DEF ArrayGrown
  <2>2. NoBlock \notin s.owned BY DEF Pages, Sound, IsState, Blocks, NoBlock
  <2> QED BY <1>1, <2>1, <2>2, AllocatedPages
<1>2. CASE array # NoBlock
  <2> DEFINE n == 2 * array.size
  <2>1. array \in s.owned /\ array \in Blocks BY <1>2
  <2>2. n \in Nat \ {0} BY <2>1, PageAssumption DEF Blocks
  <2> HIDE DEF n
  <2>3. \/ r \in Extended(s, array, n)
        \/ \E q \in Allocated(s, n) : r = [q EXCEPT !.state = Deallocated(@, array)]
    BY <1>2 DEF ArrayGrown, n
  <2>4. CASE r \in Extended(s, array, n) BY <2>1, <2>2, <2>4, ExtendedPages
  <2>5. CASE \E q \in Allocated(s, n) : r = [q EXCEPT !.state = Deallocated(@, array)]
    <3>1. PICK q \in Allocated(s, n) : r = [q EXCEPT !.state = Deallocated(@, array)] BY <2>5
    <3>2. r.block = q.block /\ r.state = Deallocated(q.state, array)
      BY <3>1 DEF Allocated
    <3>3. Pages(q.state) /\ q.block \in Blocks /\ q.block \notin s.owned /\ q.state.owned = s.owned \cup {q.block}
      BY <2>2, AllocatedPages
    <3>4. array \in q.state.owned BY <2>1, <3>3
    <3>5. Pages(r.state) /\ r.state.owned = q.state.owned \ {array} BY <3>2, <3>3, <3>4, DeallocatedPages
    <3> QED BY <2>1, <3>2, <3>3, <3>5
  <2> QED BY <2>3, <2>4, <2>5
<1> QED BY <1>1, <1>2

-----------------------------------------------------------------------------
(* One stack *)

LEMMA Sizes ==
    /\ PageSize \in Nat /\ ChunkHeader \in Nat /\ FiberSize \in Nat
    /\ ValuesPerPage \in Nat \ {0} /\ Reserved \in Nat
    /\ InitialChunks \in Nat \ {0} /\ InitialValues \in Nat \ {0}
    /\ TrampolineAt \in Nat /\ TrampolineAt <= FiberSize /\ ChunkHeader + FiberSize <= PageSize
    /\ \A size \in FrameSizes : size \in Nat
    /\ \A need \in Needs : need \in Nat
BY StacksAssumption DEF StacksAssumption

LEMMA BlockSizes == \A b \in Blocks : b.start \in Nat \ {0} /\ b.size \in Nat \ {0} /\ b = [start |-> b.start, size |-> b.size]
BY PageAssumption DEF Blocks

LEMMA ChunksOfShape ==
    ASSUME NEW b \in Blocks
    PROVE  /\ ChunksOf(b) \in Seq(Chunks)
           /\ Len(ChunksOf(b)) = b.size
           /\ Firsts(ChunksOf(b)) = {1}
           /\ BlockAt(ChunksOf(b)[1]) = b
           /\ \A k \in 2..b.size : ChunksOf(b)[k].block = 0
<1> DEFINE cs == ChunksOf(b)
<1>1. b.start \in Nat \ {0} /\ b.size \in Nat \ {0} /\ b = [start |-> b.start, size |-> b.size] BY BlockSizes
<1>2. cs \in [1..b.size -> Chunks] BY <1>1 DEF ChunksOf, Chunks
<1>3. cs \in Seq(Chunks) /\ Len(cs) = b.size BY <1>1, <1>2
<1>4. 1 \in 1..b.size /\ cs[1] = [page |-> b.start + 1 - 1, block |-> b.size] BY <1>1 DEF ChunksOf
<1>5. cs[1].block = b.size /\ cs[1].page = b.start BY <1>1, <1>4
<1>6. \A k \in 2..b.size : cs[k].block = 0 BY <1>1 DEF ChunksOf
<1> HIDE DEF cs
<1>7. BlockAt(cs[1]) = b BY <1>1, <1>5 DEF BlockAt
<1>8. Firsts(cs) = {1} BY <1>1, <1>3, <1>4, <1>5, <1>6 DEF Firsts
<1> QED BY <1>3, <1>6, <1>7, <1>8 DEF cs

LEMMA NewStack ==
    ASSUME NEW c \in Blocks, NEW v \in Blocks,
           NEW st, st = [status |-> "live", chunks |-> ChunksOf(c), capacity |-> InitialChunks,
                         frames |-> <<Trampoline>>, values |-> v]
    PROVE  /\ StackOK(st) /\ st.status = "live"
           /\ BlocksIn(st) = {c, v}
           /\ c # v => Distinct(st)
<1> DEFINE t == Trampoline
<1>1. /\ ChunksOf(c) \in Seq(Chunks) /\ Len(ChunksOf(c)) = c.size /\ Firsts(ChunksOf(c)) = {1}
      /\ BlockAt(ChunksOf(c)[1]) = c
  BY ChunksOfShape
<1>2. c.size \in Nat \ {0} BY BlockSizes
<1>3. t \in Frames BY Sizes DEF Trampoline, Frames
<1>4. t.chunk = 1 /\ t.at >= ChunkHeader /\ t.at + t.size <= PageSize BY Sizes DEF Trampoline
<1> HIDE DEF t
<1>5. <<t>> \in Seq(Frames) /\ Len(<<t>>) = 1 /\ <<t>>[1] = t BY <1>3
<1>6. st \in StackRecords BY <1>1, <1>5, Sizes DEF StackRecords, t
<1>7. st.chunks = ChunksOf(c) /\ st.frames = <<t>> /\ st.values = v /\ st.status = "live" BY DEF t
<1>8. FramesFit(st)
  <2>1. 1 \in 1..Len(st.chunks) BY <1>1, <1>2, <1>7
  <2> QED BY <1>4, <1>5, <1>7, <2>1 DEF FramesFit
<1>9. HasRoom(st) BY <1>5, <1>7 DEF HasRoom
<1>10. BlocksIn(st) = {c, v} BY <1>1, <1>7 DEF BlocksIn
<1>11. c # v => Distinct(st) BY <1>1, <1>7 DEF Distinct
<1> QED BY <1>6, <1>7, <1>8, <1>9, <1>10, <1>11 DEF StackOK

LEMMA MoreChunks ==
    ASSUME NEW st, StackOK(st), st.status # "absent", Distinct(st),
           NEW b \in Blocks, b \notin BlocksIn(st), NEW x \in {"live", "overflow"},
           NEW u, u = [st EXCEPT !.chunks = @ \o ChunksOf(b), !.capacity = @ + 1, !.status = x]
    PROVE  /\ StackOK(u) /\ u.status = x
           /\ BlocksIn(u) = BlocksIn(st) \cup {b}
           /\ Distinct(u)
<1> DEFINE cs == st.chunks
           ds == ChunksOf(b)
           n == Len(st.chunks)
<1>1. st \in StackRecords BY DEF StackOK
<1>2. cs \in Seq(Chunks) /\ n \in Nat /\ st.capacity \in Nat /\ st.frames \in Seq(Frames) BY <1>1 DEF StackRecords
<1>3. /\ ds \in Seq(Chunks) /\ Len(ds) = b.size /\ Firsts(ds) = {1} /\ BlockAt(ds[1]) = b
      /\ \A k \in 2..b.size : ds[k].block = 0
  BY ChunksOfShape
<1>4. b.size \in Nat \ {0} BY BlockSizes
<1>5. /\ u.chunks = cs \o ds /\ u.capacity = st.capacity + 1 /\ u.status = x
      /\ u.frames = st.frames /\ u.values = st.values
      /\ u = [status |-> x, chunks |-> cs \o ds, capacity |-> st.capacity + 1, frames |-> st.frames, values |-> st.values]
  BY <1>1 DEF StackRecords
<1> HIDE DEF ds
<1>6. /\ cs \o ds \in Seq(Chunks) /\ Len(cs \o ds) = n + b.size
      /\ \A i \in 1..n : (cs \o ds)[i] = cs[i]
      /\ \A k \in 1..b.size : (cs \o ds)[n + k] = ds[k]
  <2>1. /\ cs \o ds \in Seq(Chunks) /\ Len(cs \o ds) = n + b.size
        /\ \A i \in 1..n + b.size : (cs \o ds)[i] = IF i <= n THEN cs[i] ELSE ds[i - n]
    BY <1>2, <1>3, ConcatProperties
  <2>2. \A i \in 1..n : i \in 1..n + b.size /\ i <= n BY <1>2, <1>4
  <2>3. \A k \in 1..b.size : n + k \in 1..n + b.size /\ ~(n + k <= n) /\ n + k - n = k BY <1>2, <1>4
  <2> QED BY <2>1, <2>2, <2>3
<1>7. u \in StackRecords
  <2>1. st.capacity + 1 \in Nat BY <1>2
  <2>2. st.values \in Blocks \cup {NoBlock} BY <1>1 DEF StackRecords
  <2> QED BY <1>2, <1>5, <1>6, <2>1, <2>2 DEF StackRecords
<1>8. Firsts(u.chunks) = Firsts(cs) \cup {n + 1}
  <2>1. \A i \in 1..n : i \in Firsts(u.chunks) <=> i \in Firsts(cs)
    BY <1>2, <1>4, <1>5, <1>6 DEF Firsts
  <2>2. n + 1 \in Firsts(u.chunks)
    <3>1. 1 \in 1..b.size /\ n + 1 \in 1..n + b.size BY <1>2, <1>4
    <3>2. ds[1].block # 0 BY <1>3 DEF Firsts
    <3> QED BY <1>5, <1>6, <3>1, <3>2 DEF Firsts
  <2>3. ASSUME NEW i \in n + 2..n + b.size PROVE i \notin Firsts(u.chunks)
    <3> DEFINE k == i - n
    <3>1. k \in 2..b.size /\ k \in 1..b.size /\ n + k = i BY <1>2, <1>4
    <3> HIDE DEF k
    <3>2. (cs \o ds)[i].block = 0 BY <1>3, <1>6, <3>1
    <3> QED BY <1>5, <3>2 DEF Firsts
  <2>4. \A i \in Firsts(u.chunks) : i \in 1..n \/ i = n + 1 \/ i \in n + 2..n + b.size
    BY <1>2, <1>4, <1>5, <1>6 DEF Firsts
  <2>5. Firsts(cs) \subseteq 1..n BY DEF Firsts
  <2> QED BY <2>1, <2>2, <2>3, <2>4, <2>5
<1>9. \A i \in Firsts(cs) : i \in 1..n /\ i # n + 1 /\ BlockAt(u.chunks[i]) = BlockAt(cs[i])
  BY <1>2, <1>5, <1>6 DEF Firsts
<1>10. BlockAt(u.chunks[n + 1]) = b
  <2>1. 1 \in 1..b.size BY <1>4
  <2>2. u.chunks[n + 1] = ds[1] BY <1>5, <1>6, <2>1
  <2> QED BY <1>3, <2>2
<1>11. BlocksIn(u) = BlocksIn(st) \cup {b}
  <2>1. {BlockAt(u.chunks[i]) : i \in Firsts(u.chunks)} = {BlockAt(cs[i]) : i \in Firsts(cs)} \cup {b}
    <3> HIDE DEF cs, n
    <3> QED BY <1>8, <1>9, <1>10
  <2> QED BY <1>5, <2>1 DEF BlocksIn
<1>12. Distinct(u)
  <2>1. b # st.values /\ \A i \in Firsts(cs) : BlockAt(cs[i]) # b BY DEF BlocksIn
  <2>2. \A i, j \in Firsts(u.chunks) : i # j => BlockAt(u.chunks[i]) # BlockAt(u.chunks[j])
    <3>1. \A i, j \in Firsts(cs) : i # j => BlockAt(cs[i]) # BlockAt(cs[j]) BY DEF Distinct
    <3> HIDE DEF cs, n
    <3> TAKE i, j \in Firsts(u.chunks)
    <3> HAVE i # j
    <3>2. CASE i \in Firsts(cs) /\ j \in Firsts(cs) BY <1>9, <3>1, <3>2
    <3>3. CASE i = n + 1 /\ j \in Firsts(cs) BY <1>9, <1>10, <2>1, <3>3
    <3>4. CASE j = n + 1 /\ i \in Firsts(cs) BY <1>9, <1>10, <2>1, <3>4
    <3> QED BY <1>8, <3>2, <3>3, <3>4
  <2>3. \A i \in Firsts(u.chunks) : BlockAt(u.chunks[i]) # u.values
    BY <1>5, <1>8, <1>9, <1>10, <2>1 DEF Distinct
  <2> QED BY <2>2, <2>3 DEF Distinct
<1>13. FramesFit(u)
  <2>1. FramesFit(st) BY DEF StackOK
  <2>2. 1..n \subseteq 1..Len(u.chunks) BY <1>2, <1>4, <1>5, <1>6
  <2> QED BY <1>5, <2>1, <2>2 DEF FramesFit
<1>14. HasRoom(u) BY <1>5 DEF StackOK, HasRoom, Room
<1> QED BY <1>5, <1>7, <1>11, <1>12, <1>13, <1>14 DEF StackOK

LEMMA MoreValues ==
    ASSUME NEW st, StackOK(st), st.status # "absent", Distinct(st),
           NEW b \in Blocks, b \notin BlocksIn(st), b.size >= 2 * st.values.size,
           NEW x \in {"live", "overflow"},
           NEW u, u = [st EXCEPT !.values = b, !.status = x]
    PROVE  /\ StackOK(u) /\ u.status = x
           /\ BlocksIn(u) = (BlocksIn(st) \ {st.values}) \cup {b}
           /\ Distinct(u)
<1>1. st \in StackRecords /\ st.values \in Blocks /\ HasRoom(st) /\ FramesFit(st) BY DEF StackOK
<1>2. /\ u.chunks = st.chunks /\ u.status = x /\ u.frames = st.frames /\ u.values = b /\ u \in StackRecords
  BY <1>1 DEF StackRecords
<1>3. Distinct(u) /\ BlocksIn(u) = (BlocksIn(st) \ {st.values}) \cup {b}
  BY <1>2 DEF Distinct, BlocksIn
<1>4. Room(u) >= Room(st) /\ Room(u) \in Nat /\ Room(st) \in Nat
  <2>1. b.size \in Nat /\ st.values.size \in Nat /\ ValuesPerPage \in Nat BY <1>1, BlockSizes, Sizes
  <2>2. \A i, j, k \in Nat : i >= 2 * j => i * k >= j * k /\ i * k \in Nat /\ j * k \in Nat
    <3> TAKE i, j, k \in Nat
    <3> HAVE i >= 2 * j
    <3>1. i - j \in Nat BY SMT
    <3>2. (i - j) * k \in Nat BY <3>1, SMT
    <3> QED BY <3>2, SMT
  <2> QED BY <1>2, <2>1, <2>2 DEF Room
<1>5. HasRoom(u)
  <2> SUFFICES ASSUME NEW d \in 2..Len(st.frames)
               PROVE  st.frames[d].depth + st.frames[d].need + Reserved <= Room(u)
    BY <1>2 DEF HasRoom
  <2>1. st.frames \in Seq(Frames) BY <1>1 DEF StackRecords
  <2>2. d \in 1..Len(st.frames) BY <2>1
  <2>a. st.frames[d] \in Frames BY <2>1, <2>2
  <2>3. st.frames[d].depth \in Nat /\ st.frames[d].need \in Nat /\ Reserved \in Nat BY <2>a, Sizes DEF Frames
  <2>4. st.frames[d].depth + st.frames[d].need + Reserved <= Room(st) BY <1>1 DEF HasRoom
  <2> QED BY <1>4, <2>3, <2>4
<1>6. FramesFit(u) BY <1>1, <1>2 DEF FramesFit
<1> QED BY <1>1, <1>2, <1>3, <1>5, <1>6 DEF StackOK

(* A frame after the topmost one, in its chunk or at the start of the next.  *)
LEMMA MoreFrames ==
    ASSUME NEW st, StackOK(st), st.status # "absent",
           NEW fr \in Frames, fr.depth + fr.need + Reserved <= Room(st),
           LET top == st.frames[Len(st.frames)]
           IN  \/ fr.chunk = top.chunk /\ fr.at = top.at + top.size
               \/ fr.chunk = top.chunk + 1 /\ fr.chunk <= Len(st.chunks) /\ fr.at = ChunkHeader,
           fr.at + fr.size <= PageSize,
           NEW u, u = [st EXCEPT !.frames = Append(@, fr)]
    PROVE  /\ StackOK(u) /\ u.status = st.status
           /\ BlocksIn(u) = BlocksIn(st)
           /\ Distinct(st) => Distinct(u)
<1> DEFINE n == Len(st.frames)
           top == st.frames[n]
<1>1. st \in StackRecords /\ st.values \in Blocks /\ HasRoom(st) /\ FramesFit(st) /\ st.frames # <<>> BY DEF StackOK
<1>2. st.frames \in Seq(Frames) /\ n \in Nat \ {0} /\ st.chunks \in Seq(Chunks) BY <1>1 DEF StackRecords
<1>3. Append(st.frames, fr) \in Seq(Frames) BY <1>2
<1>4. u.chunks = st.chunks /\ u.status = st.status /\ u.frames = Append(st.frames, fr) /\ u.values = st.values
      /\ u \in StackRecords
  BY <1>1, <1>3 DEF StackRecords
<1>5. Len(u.frames) = n + 1 /\ u.frames[n + 1] = fr /\ \A d \in 1..n : u.frames[d] = st.frames[d]
  BY <1>2, <1>4, AppendProperties
<1>6. \A d \in 1..n : st.frames[d] \in Frames BY <1>2
<1>7. top \in Frames /\ n \in 1..n BY <1>2
<1>8. \A d \in 1..n : /\ st.frames[d].chunk \in 1..Len(st.chunks)
                      /\ st.frames[d].at >= ChunkHeader
                      /\ st.frames[d].at + st.frames[d].size <= PageSize
  BY <1>1 DEF FramesFit
<1>9. fr.chunk \in 1..Len(st.chunks) /\ fr.at >= ChunkHeader
  <2>1. fr.chunk \in Nat /\ top.chunk \in 1..Len(st.chunks) /\ top.at >= ChunkHeader /\ Len(st.chunks) \in Nat
    <3>1. top.chunk \in 1..Len(st.chunks) /\ top.at >= ChunkHeader BY <1>7, <1>8
    <3>2. Len(st.chunks) \in Nat BY <1>2
    <3> QED BY <3>1, <3>2 DEF Frames
  <2>2. top.at \in Nat /\ top.size \in Nat /\ ChunkHeader \in Nat BY <1>7, Sizes DEF Frames
  <2>3. CASE fr.chunk = top.chunk /\ fr.at = top.at + top.size BY <2>1, <2>2, <2>3
  <2>4. CASE fr.chunk = top.chunk + 1 /\ fr.chunk <= Len(st.chunks) /\ fr.at = ChunkHeader BY <2>1, <2>2, <2>4
  <2> QED BY <2>3, <2>4
<1>10. ASSUME NEW d \in 1..n
       PROVE  fr.chunk > st.frames[d].chunk \/ (fr.chunk = st.frames[d].chunk /\ fr.at >= st.frames[d].at + st.frames[d].size)
  <2> DEFINE g == st.frames[d]
  <2>1. /\ g.chunk \in Nat /\ g.at \in Nat /\ g.size \in Nat
        /\ top.chunk \in Nat /\ top.at \in Nat /\ top.size \in Nat
        /\ fr.chunk \in Nat /\ fr.at \in Nat
    BY <1>6, <1>7 DEF Frames
  <2>2. d = n \/ top.chunk > g.chunk \/ (top.chunk = g.chunk /\ top.at >= g.at + g.size)
    <3>1. d = n \/ n \in d + 1..n BY <1>2
    <3> QED BY <1>1, <3>1 DEF FramesFit
  <2>3. \/ fr.chunk = top.chunk /\ fr.at = top.at + top.size
        \/ fr.chunk = top.chunk + 1
    OBVIOUS
  <2> HIDE DEF g, top
  <2>4. d = n => g = top BY DEF g, top
  <2> HIDE DEF n
  <2>5. fr.chunk > g.chunk \/ (fr.chunk = g.chunk /\ fr.at >= g.at + g.size)
    <3>1. CASE fr.chunk = top.chunk + 1 BY <2>1, <2>2, <2>4, <3>1
    <3>2. CASE fr.chunk = top.chunk /\ fr.at = top.at + top.size BY <2>1, <2>2, <2>4, <3>2
    <3> QED BY <2>3, <3>1, <3>2
  <2> QED BY <2>5 DEF g
<1> HIDE DEF n, top
<1>11. FramesFit(u)
  <2> SUFFICES ASSUME NEW d \in 1..n + 1
               PROVE  /\ u.frames[d].chunk \in 1..Len(st.chunks)
                      /\ u.frames[d].at >= ChunkHeader
                      /\ u.frames[d].at + u.frames[d].size <= PageSize
                      /\ \A e \in d + 1..n + 1 :
                            \/ u.frames[e].chunk > u.frames[d].chunk
                            \/ /\ u.frames[e].chunk = u.frames[d].chunk
                               /\ u.frames[e].at >= u.frames[d].at + u.frames[d].size
    BY <1>4, <1>5 DEF FramesFit
  <2>1. CASE d = n + 1
    <3>1. \A e \in d + 1..n + 1 : FALSE BY <1>2, <2>1 DEF n
    <3> QED BY <1>5, <1>9, <2>1, <3>1
  <2>2. CASE d \in 1..n
    <3>0. n \in Nat BY <1>2 DEF n
    <3>1. \A e \in d + 1..n + 1 : e = n + 1 \/ (e \in d + 1..n /\ e \in 1..n) BY <2>2, <3>0
    <3>2. \A e \in d + 1..n :
             \/ st.frames[e].chunk > st.frames[d].chunk
             \/ /\ st.frames[e].chunk = st.frames[d].chunk
                /\ st.frames[e].at >= st.frames[d].at + st.frames[d].size
      BY <1>1, <2>2 DEF FramesFit, n
    <3>3. \A e \in d + 1..n + 1 :
             \/ u.frames[e].chunk > st.frames[d].chunk
             \/ /\ u.frames[e].chunk = st.frames[d].chunk
                /\ u.frames[e].at >= st.frames[d].at + st.frames[d].size
      <4> TAKE e \in d + 1..n + 1
      <4>1. CASE e = n + 1 BY <1>5, <1>10, <2>2, <4>1 DEF n
      <4>2. CASE e \in d + 1..n /\ e \in 1..n BY <1>5, <3>2, <4>2 DEF n
      <4> QED BY <3>1, <4>1, <4>2
    <3>4. u.frames[d] = st.frames[d] BY <1>5, <2>2 DEF n
    <3> HIDE DEF n
    <3> QED BY <1>8, <2>2, <3>3, <3>4 DEF n
  <2> QED BY <1>2, <2>1, <2>2 DEF n
<1>12. HasRoom(u)
  <2>1. \A d \in 2..n + 1 : d = n + 1 \/ (d \in 2..n /\ d \in 1..n) BY <1>2 DEF n
  <2>2. \A d \in 2..n : st.frames[d].depth + st.frames[d].need + Reserved <= Room(st) BY <1>1 DEF HasRoom, n
  <2>3. Room(u) = Room(st) BY <1>4 DEF Room
  <2> QED BY <1>5, <2>1, <2>2, <2>3 DEF HasRoom
<1>13. BlocksIn(u) = BlocksIn(st) /\ (Distinct(st) => Distinct(u)) BY <1>4 DEF BlocksIn, Distinct
<1>14. u.frames # <<>> BY <1>2, <1>5 DEF n
<1> QED BY <1>1, <1>4, <1>11, <1>12, <1>13, <1>14 DEF StackOK

LEMMA FewerFrames ==
    ASSUME NEW st, StackOK(st), st.status # "absent", Len(st.frames) > 1,
           NEW u, u = [st EXCEPT !.frames = SubSeq(@, 1, Len(@) - 1)]
    PROVE  /\ StackOK(u) /\ u.status = st.status
           /\ BlocksIn(u) = BlocksIn(st)
           /\ Distinct(st) => Distinct(u)
<1> DEFINE n == Len(st.frames) - 1
           fs == SubSeq(st.frames, 1, n)
<1>1. st \in StackRecords /\ st.values \in Blocks /\ HasRoom(st) /\ FramesFit(st) BY DEF StackOK
<1>2. st.frames \in Seq(Frames) /\ n \in Nat \ {0} /\ Len(st.frames) = n + 1 BY <1>1 DEF StackRecords
<1>3. u = [st EXCEPT !.frames = fs] OBVIOUS
<1> HIDE DEF n
<1>4. fs \in Seq(Frames) /\ Len(fs) = n /\ \A d \in 1..n : fs[d] = st.frames[d]
  <2>1. n \in Int /\ 1 \in Int /\ \A i \in 1..n : st.frames[i] \in Frames BY <1>2
  <2>2. /\ SubSeq(st.frames, 1, n) \in Seq(Frames)
        /\ Len(SubSeq(st.frames, 1, n)) = IF 1 <= n THEN n - 1 + 1 ELSE 0
        /\ \A i \in 1..n - 1 + 1 : SubSeq(st.frames, 1, n)[i] = st.frames[1 + i - 1]
    BY <2>1, SubSeqProperties
  <2>3. \A i \in 1..n : i \in 1..n - 1 + 1 /\ 1 + i - 1 = i BY <1>2
  <2> QED BY <1>2, <2>2, <2>3
<1> HIDE DEF fs
<1>5. u.chunks = st.chunks /\ u.status = st.status /\ u.frames = fs /\ u.values = st.values /\ u \in StackRecords
  BY <1>1, <1>3, <1>4 DEF StackRecords
<1>6. FramesFit(u)
  <2>1. \A d \in 1..n : d \in 1..n + 1 /\ \A e \in d + 1..n : e \in d + 1..n + 1 /\ e \in 1..n BY <1>2
  <2> QED BY <1>1, <1>2, <1>4, <1>5, <2>1 DEF FramesFit
<1>7. HasRoom(u)
  <2>1. \A d \in 2..n : d \in 1..n /\ d \in 2..n + 1 BY <1>2
  <2> QED BY <1>1, <1>2, <1>4, <1>5, <2>1 DEF HasRoom, Room
<1>8. BlocksIn(u) = BlocksIn(st) /\ (Distinct(st) => Distinct(u)) BY <1>5 DEF BlocksIn, Distinct
<1>9. u.frames # <<>> BY <1>2, <1>4, <1>5
<1> QED BY <1>1, <1>5, <1>6, <1>7, <1>8, <1>9 DEF StackOK

-----------------------------------------------------------------------------
(* The table of stacks and the array *)

LEMMA OwnedIsBlocks ==
    ASSUME NEW s, Pages(s)
    PROVE  s.owned \subseteq Blocks /\ NoBlock \notin s.owned
BY DEF Pages, Sound, IsState, Blocks, NoBlock

(* One stack becomes another, of what it had and what nobody had.            *)
LEMMA StackChanged ==
    ASSUME NEW table, StacksIn(table), NEW owned, NEW a, HeldIn(owned, table, a),
           NEW f \in Fibers, NEW st, StackOK(st), st.status # "absent" => Distinct(st),
           \A b \in Has(st) : b \in Has(table[f]) \/ b \notin owned \cup {NoBlock},
           NEW w, w = (owned \ Has(table[f])) \cup Has(st),
           NEW t, t = [table EXCEPT ![f] = st]
    PROVE  StacksIn(t) /\ HeldIn(w, t, a)
<1>1. table \in [Fibers -> StackRecords] /\ st \in StackRecords BY DEF StacksIn, StackOK
<1>2. t \in [Fibers -> StackRecords] /\ t[f] = st /\ \A g \in Fibers \ {f} : t[g] = table[g] BY <1>1
<1>3. \A g \in Fibers \ {f} : Has(t[g]) = Has(table[g]) BY <1>2
<1>4. Has(t[f]) = Has(st) BY <1>2
<1>5. StacksIn(t) BY <1>2 DEF StacksIn
<1>6. /\ a \in Blocks \cup {NoBlock}
      /\ \A b : b \in owned <=> (\E g \in Fibers : b \in Has(table[g])) \/ (b = a /\ b # NoBlock)
      /\ \A g, h \in Fibers : g # h => Has(table[g]) \cap Has(table[h]) = {}
      /\ \A g \in Fibers : a \notin Has(table[g])
      /\ \A g \in Fibers : table[g].status # "absent" => Distinct(table[g])
  BY DEF HeldIn
<1>7. \A g \in Fibers : Has(table[g]) \subseteq owned BY <1>6
<1>8. \A g \in Fibers \ {f} : Has(st) \cap Has(table[g]) = {} BY <1>6, <1>7
<1>9. a \notin Has(st) BY <1>6
<1>10. \A g, h \in Fibers : g # h => Has(t[g]) \cap Has(t[h]) = {}
  <2> TAKE g, h \in Fibers
  <2> HAVE g # h
  <2>1. CASE g = f BY <1>3, <1>4, <1>8, <2>1
  <2>2. CASE h = f BY <1>3, <1>4, <1>8, <2>2
  <2>3. CASE g # f /\ h # f BY <1>3, <1>6, <2>3
  <2> QED BY <2>1, <2>2, <2>3
<1>11. \A g \in Fibers : a \notin Has(t[g]) BY <1>3, <1>4, <1>6, <1>9
<1>12. \A b : b \in w <=> (\E g \in Fibers : b \in Has(t[g])) \/ (b = a /\ b # NoBlock)
  <2> HIDE DEF Has
  <2> TAKE b
  <2>1. (\E g \in Fibers : b \in Has(t[g])) <=> b \in Has(st) \/ \E g \in Fibers \ {f} : b \in Has(table[g])
    BY <1>3, <1>4
  <2>2. (\E g \in Fibers \ {f} : b \in Has(table[g])) =>
           (\E g \in Fibers : b \in Has(table[g])) /\ b \notin Has(table[f])
    BY <1>6
  <2>3. (\E g \in Fibers : b \in Has(table[g])) /\ b \notin Has(table[f]) =>
           \E g \in Fibers \ {f} : b \in Has(table[g])
    OBVIOUS
  <2>4. b = a => b \notin Has(table[f]) BY <1>6
  <2> QED BY <1>6, <2>1, <2>2, <2>3, <2>4
<1>13. \A g \in Fibers : t[g].status # "absent" => Distinct(t[g]) BY <1>2, <1>6
<1> QED BY <1>5, <1>6, <1>10, <1>11, <1>12, <1>13 DEF HeldIn

(* The array becomes another, or the same one extended.                      *)
LEMMA ArrayChanged ==
    ASSUME NEW owned, NoBlock \notin owned, NEW table, NEW a, HeldIn(owned, table, a),
           NEW b \in Blocks, b \notin owned \ {a},
           NEW w, w = (owned \ {a}) \cup {b}
    PROVE  HeldIn(w, table, b)
<1>1. /\ \A x : x \in owned <=> (\E g \in Fibers : x \in Has(table[g])) \/ (x = a /\ x # NoBlock)
      /\ \A g, h \in Fibers : g # h => Has(table[g]) \cap Has(table[h]) = {}
      /\ \A g \in Fibers : a \notin Has(table[g])
      /\ \A g \in Fibers : table[g].status # "absent" => Distinct(table[g])
  BY DEF HeldIn
<1>2. b # NoBlock BY BlockSizes DEF NoBlock
<1>3. \A x : x \in owned \ {a} <=> \E g \in Fibers : x \in Has(table[g])
  <2> HIDE DEF Has
  <2> TAKE x
  <2>1. x = a => x \notin owned \ {a} /\ ~\E g \in Fibers : x \in Has(table[g]) BY <1>1
  <2>2. x # a => (x \in owned <=> \E g \in Fibers : x \in Has(table[g])) BY <1>1
  <2> QED BY <2>1, <2>2
<1>4. \A g \in Fibers : b \notin Has(table[g]) BY <1>3
<1>5. \A x : x \in w <=> (\E g \in Fibers : x \in Has(table[g])) \/ (x = b /\ x # NoBlock) BY <1>2, <1>3
<1> QED BY <1>1, <1>4, <1>5 DEF HeldIn

LEMMA HeldOfFiber ==
    ASSUME NEW owned, NEW table, NEW a, HeldIn(owned, table, a), NEW f \in Fibers
    PROVE  Has(table[f]) \subseteq owned /\ (a # NoBlock => a \in owned)
BY DEF HeldIn

-----------------------------------------------------------------------------
(* The steps *)

LEMMA InvHas ==
    ASSUME Inv
    PROVE  /\ Pages(pages) /\ StacksIn(stacks) /\ CallIn(stacks, calling) /\ HeldIn(pages.owned, stacks, array)
           /\ pages.owned \subseteq Blocks /\ NoBlock \notin pages.owned
           /\ array \in Blocks \cup {NoBlock}
           /\ array # NoBlock => array \in pages.owned
           /\ \A f \in Fibers : Has(stacks[f]) \subseteq pages.owned
           /\ \A f \in Fibers : stacks[f].status # "absent" => Has(stacks[f]) = BlocksIn(stacks[f]) /\ Distinct(stacks[f])
           /\ stacks \in [Fibers -> StackRecords]
           /\ \A f \in Fibers : StackOK(stacks[f])
<1>1. /\ Pages(pages) /\ StacksIn(stacks) /\ CallIn(stacks, calling) /\ HeldIn(pages.owned, stacks, array)
  BY DEF Inv, InvIn
<1>2. pages.owned \subseteq Blocks /\ NoBlock \notin pages.owned BY <1>1, OwnedIsBlocks
<1>3. /\ array \in Blocks \cup {NoBlock}
      /\ array # NoBlock => array \in pages.owned
      /\ \A f \in Fibers : Has(stacks[f]) \subseteq pages.owned
      /\ \A f \in Fibers : stacks[f].status # "absent" => Distinct(stacks[f])
  BY <1>1 DEF HeldIn
<1>4. \A f \in Fibers : stacks[f].status # "absent" => Has(stacks[f]) = BlocksIn(stacks[f]) BY DEF Has
<1>5. stacks \in [Fibers -> StackRecords] /\ \A f \in Fibers : StackOK(stacks[f]) BY <1>1 DEF StacksIn
<1> QED BY <1>1, <1>2, <1>3, <1>4, <1>5

LEMMA InvStart == Init => Inv
<1> SUFFICES ASSUME Init PROVE Inv OBVIOUS
<1>1. pages = NoPages /\ stacks = [f \in Fibers |-> Absent] /\ array = NoBlock /\ calling = Idle
  BY DEF Init, AllocInit
<1>2. Pages(pages) /\ pages.owned = {} BY <1>1, NoPagesFine
<1>3. StacksIn(stacks) BY <1>1 DEF StacksIn, StackOK, StackRecords, Absent
<1>4. \A f \in Fibers : Has(stacks[f]) = {} /\ stacks[f].status = "absent" BY <1>1 DEF Has, Absent
<1>5. HeldIn(pages.owned, stacks, array) BY <1>1, <1>2, <1>4 DEF HeldIn
<1>6. CallIn(stacks, calling) BY <1>1 DEF CallIn
<1> QED BY <1>2, <1>3, <1>5, <1>6 DEF Inv, InvIn

LEMMA InvGrowArray == Inv /\ GrowArray => Inv'
<1> SUFFICES ASSUME Inv, GrowArray PROVE InvIn(pages', stacks', array', calling') BY DEF Inv
<1>1. PICK r \in ArrayGrown(pages) : pages' = r.state /\ array' = r.block BY DEF GrowArray
<1>2. stacks' = stacks /\ calling' = calling BY DEF GrowArray
<1>3. /\ Pages(r.state)
      /\ r.block \in Blocks
      /\ r.block \notin pages.owned \ {array}
      /\ r.state.owned = (pages.owned \ {array}) \cup {r.block}
  BY InvHas, ArrayGrownPages
<1>4. HeldIn(r.state.owned, stacks, r.block) BY <1>3, InvHas, ArrayChanged
<1> QED BY <1>1, <1>2, <1>3, <1>4, InvHas DEF InvIn

LEMMA InvCreateFiber ==
    ASSUME Inv, NEW f \in Fibers, CreateFiber(f)
    PROVE  Inv'
<1> SUFFICES InvIn(pages', stacks', array', calling') BY DEF Inv
<1>1. /\ calling = Idle /\ calling' = calling /\ stacks[f].status = "absent" BY DEF CreateFiber, Running
<1> DEFINE Made(c, a, v) ==
             /\ pages' = v.state
             /\ array' = a.block
             /\ stacks' = [stacks EXCEPT ![f] =
                   [status |-> "live", chunks |-> ChunksOf(c.block), capacity |-> InitialChunks,
                    frames |-> <<Trampoline>>, values |-> v.block]]
<1>a. PICK c \in Allocated(pages, InitialChunks) :
             \E a \in {[block |-> array, state |-> c.state]} \cup ArrayGrown(c.state) :
             \E v \in Allocated(a.state, InitialValues) : Made(c, a, v)
  BY DEF CreateFiber
<1>b. PICK a \in {[block |-> array, state |-> c.state]} \cup ArrayGrown(c.state) :
             \E v \in Allocated(a.state, InitialValues) : Made(c, a, v)
  BY <1>a
<1>2. PICK v \in Allocated(a.state, InitialValues) : Made(c, a, v) BY <1>b
<1>3. InitialChunks \in Nat \ {0} /\ InitialValues \in Nat \ {0} BY Sizes
<1>4. /\ Pages(c.state) /\ c.block \in Blocks
      /\ c.block \notin pages.owned
      /\ c.state.owned = pages.owned \cup {c.block}
  BY <1>3, InvHas, AllocatedPages
<1>5. PICK w : /\ HeldIn(w, stacks, a.block) /\ NoBlock \notin w
               /\ c.block \notin w /\ a.state.owned = w \cup {c.block} /\ Pages(a.state)
  <2>1. CASE a = [block |-> array, state |-> c.state]
    <3>1. a.block = array /\ a.state = c.state BY <2>1
    <3> QED BY <1>4, <3>1, InvHas
  <2>2. CASE a \in ArrayGrown(c.state)
    <3> DEFINE w == (pages.owned \ {array}) \cup {a.block}
    <3>1. array # NoBlock => array \in c.state.owned /\ array # c.block BY <1>4, InvHas
    <3>2. c.block # NoBlock BY <1>4, BlockSizes DEF NoBlock
    <3>3. /\ Pages(a.state)
          /\ a.block \in Blocks
          /\ a.block \notin c.state.owned \ {array}
          /\ a.state.owned = (c.state.owned \ {array}) \cup {a.block}
      BY <1>4, <2>2, <3>1, InvHas, ArrayGrownPages
    <3>4. a.block # c.block /\ array # c.block BY <1>4, <3>1, <3>2, <3>3
    <3>5. HeldIn(w, stacks, a.block) BY <1>4, <3>3, InvHas, ArrayChanged
    <3>6. NoBlock \notin w /\ c.block \notin w /\ a.state.owned = w \cup {c.block}
      BY <1>4, <3>3, <3>4, InvHas, BlockSizes DEF NoBlock
    <3> QED BY <3>3, <3>5, <3>6
  <2> QED BY <2>1, <2>2
<1>6. /\ Pages(v.state) /\ v.block \in Blocks
      /\ v.block \notin a.state.owned
      /\ v.state.owned = a.state.owned \cup {v.block}
  BY <1>3, <1>5, AllocatedPages
<1> DEFINE st == [status |-> "live", chunks |-> ChunksOf(c.block), capacity |-> InitialChunks,
                  frames |-> <<Trampoline>>, values |-> v.block]
<1>7. c.block # v.block BY <1>5, <1>6
<1>8. StackOK(st) /\ st.status = "live" /\ BlocksIn(st) = {c.block, v.block} /\ Distinct(st)
  BY <1>4, <1>6, <1>7, NewStack
<1>9. stacks' = [stacks EXCEPT ![f] = st] BY <1>2
<1> HIDE DEF st
<1>10. Has(stacks[f]) = {} /\ Has(st) = {c.block, v.block} BY <1>1, <1>8 DEF Has
<1>11. \A b \in Has(st) : b \in Has(stacks[f]) \/ b \notin w \cup {NoBlock}
  BY <1>4, <1>5, <1>6, <1>10, BlockSizes DEF NoBlock
<1>12. v.state.owned = (w \ Has(stacks[f])) \cup Has(st) BY <1>5, <1>6, <1>10
<1>13. StacksIn(stacks') /\ HeldIn(v.state.owned, stacks', a.block)
  <2> DEFINE t == stacks'
             x == v.state.owned
             y == a.block
  <2>1. StacksIn(stacks) /\ HeldIn(w, stacks, y) BY <1>5, InvHas
  <2>2. t = [stacks EXCEPT ![f] = st] /\ x = (w \ Has(stacks[f])) \cup Has(st) BY <1>9, <1>12
  <2>3. StackOK(st) /\ (st.status # "absent" => Distinct(st)) BY <1>8
  <2> HIDE DEF t, x, y, Made
  <2>4. StacksIn(t) /\ HeldIn(x, t, y) BY <1>11, <2>1, <2>2, <2>3, StackChanged
  <2> QED BY <2>4 DEF t, x, y
<1> QED BY <1>1, <1>2, <1>6, <1>13 DEF InvIn, CallIn

LEMMA InvCall ==
    ASSUME Inv, NEW f \in Fibers, NEW size \in FrameSizes, NEW need \in Needs, NEW used \in Needs,
           Call(f, size, need, used)
    PROVE  Inv'
<1> SUFFICES InvIn(pages', stacks', array', calling') BY DEF Inv
<1>1. /\ stacks[f].status = "live"
      /\ calling' = [fiber |-> f, size |-> size, need |-> need, used |-> TopFrame(f).depth + used]
      /\ UNCHANGED <<pages, stacks, array>>
  BY DEF Call
<1>2. TopFrame(f).depth + used \in Nat
  <2>1. StackOK(stacks[f]) BY InvHas
  <2>2. stacks[f].frames \in Seq(Frames) /\ stacks[f].frames # <<>> BY <1>1, <2>1 DEF StackOK, StackRecords
  <2>3. TopFrame(f) \in Frames BY <2>2 DEF TopFrame
  <2> QED BY <2>3, Sizes DEF Frames
<1>3. CallIn(stacks, calling') BY <1>1, <1>2 DEF CallIn
<1> QED BY <1>1, <1>3, InvHas DEF InvIn

(* A call that runs out of address space ends the program.                   *)
LEMMA InvOutOfPages ==
    ASSUME Inv, NEW n, OutOfPages(n), UNCHANGED array
    PROVE  Inv'
<1> SUFFICES InvIn(pages', stacks', array', calling') BY DEF Inv
<1>1. calling' = Idle /\ UNCHANGED <<pages, stacks, array>> BY DEF OutOfPages
<1> QED BY <1>1, InvHas DEF InvIn, CallIn

LEMMA InvGrowValues == Inv /\ GrowValues => Inv'
<1> SUFFICES ASSUME Inv, GrowValues PROVE Inv' OBVIOUS
<1> DEFINE f == calling.fiber
           old == stacks[f].values
           n == GrownValues(f)
<1>1. /\ calling # Idle /\ array' = array
      /\ \/ \E r \in Allocated(pages, n) :
               /\ pages' = Deallocated(r.state, old)
               /\ stacks' = [stacks EXCEPT ![f].values = r.block,
                                           ![f].status = IF r.block.size * ValuesPerPage > MaxValues
                                                         THEN "overflow" ELSE @]
               /\ calling' = IF r.block.size * ValuesPerPage > MaxValues THEN Idle ELSE calling
         \/ OutOfPages(n)
  BY DEF GrowValues
<1>2. CASE OutOfPages(n) BY <1>1, <1>2, InvOutOfPages
<1>3. CASE \E r \in Allocated(pages, n) :
               /\ pages' = Deallocated(r.state, old)
               /\ stacks' = [stacks EXCEPT ![f].values = r.block,
                                           ![f].status = IF r.block.size * ValuesPerPage > MaxValues
                                                         THEN "overflow" ELSE @]
               /\ calling' = IF r.block.size * ValuesPerPage > MaxValues THEN Idle ELSE calling
  <2> SUFFICES InvIn(pages', stacks', array', calling') BY DEF Inv
  <2>1. PICK r \in Allocated(pages, n) :
               /\ pages' = Deallocated(r.state, old)
               /\ stacks' = [stacks EXCEPT ![f].values = r.block,
                                           ![f].status = IF r.block.size * ValuesPerPage > MaxValues
                                                         THEN "overflow" ELSE @]
               /\ calling' = IF r.block.size * ValuesPerPage > MaxValues THEN Idle ELSE calling
    BY <1>3
  <2>2. f \in Fibers /\ stacks[f].status = "live" /\ CallIn(stacks, calling) BY <1>1, InvHas DEF CallIn
  <2>3. /\ StackOK(stacks[f]) /\ stacks[f] \in StackRecords /\ stacks \in [Fibers -> StackRecords]
        /\ Distinct(stacks[f]) /\ Has(stacks[f]) = BlocksIn(stacks[f]) /\ old \in Blocks
        /\ Has(stacks[f]) \subseteq pages.owned
    BY <2>2, InvHas DEF StackOK
  <2>4. n \in Nat \ {0} /\ n = 2 * old.size BY <2>3, BlockSizes DEF GrownValues
  <2> DEFINE x == IF r.block.size * ValuesPerPage > MaxValues THEN "overflow" ELSE "live"
             u == [stacks[f] EXCEPT !.values = r.block, !.status = x]
             t == stacks'
             w == pages'.owned
  <2>5. t = [stacks EXCEPT ![f] = u] BY <2>1, <2>2, <2>3 DEF StackRecords
  <2>6. (calling' = calling /\ x = "live") \/ calling' = Idle BY <2>1
  <2>7. x \in {"live", "overflow"} OBVIOUS
  <2> HIDE DEF f, n, x
  <2>8. /\ Pages(r.state) /\ r.block \in Blocks /\ r.block.size >= n
        /\ r.block \notin pages.owned
        /\ r.state.owned = pages.owned \cup {r.block}
    BY <2>4, InvHas, AllocatedPages
  <2>9. old \in r.state.owned /\ old \in Has(stacks[f]) BY <2>3, <2>8 DEF BlocksIn
  <2>10. Pages(pages') /\ w = r.state.owned \ {old} BY <2>1, <2>8, <2>9, DeallocatedPages
  <2>11. r.block \notin BlocksIn(stacks[f]) BY <2>3, <2>8
  <2>12. /\ StackOK(u) /\ u.status = x /\ Distinct(u)
         /\ BlocksIn(u) = (BlocksIn(stacks[f]) \ {old}) \cup {r.block}
    <3>1. r.block.size >= 2 * stacks[f].values.size BY <2>4, <2>8
    <3>2. stacks[f].status # "absent" BY <2>2
    <3>3. PICK st, b, y, v : st = stacks[f] /\ b = r.block /\ y = x /\ v = u
      OBVIOUS
    <3>4. v = [st EXCEPT !.values = b, !.status = y] BY <3>3
    <3>5. /\ StackOK(st) /\ st.status # "absent" /\ b \in Blocks /\ b.size >= 2 * st.values.size
          /\ Distinct(st) /\ b \notin BlocksIn(st) /\ y \in {"live", "overflow"} /\ old = st.values
      BY <2>3, <2>7, <2>8, <2>11, <3>1, <3>2, <3>3
    <3> HIDE DEF u, old
    <3>6. StackOK(v) /\ v.status = y /\ Distinct(v) /\ BlocksIn(v) = (BlocksIn(st) \ {st.values}) \cup {b}
      BY <3>4, <3>5, MoreValues
    <3> QED BY <3>3, <3>5, <3>6
  <2> HIDE DEF u, t, w
  <2>13. Has(u) = BlocksIn(u) BY <2>7, <2>12 DEF Has
  <2>14. w = (pages.owned \ Has(stacks[f])) \cup Has(u)
    <3> HIDE DEF old
    <3> QED BY <2>3, <2>8, <2>9, <2>10, <2>12, <2>13
  <2>15. \A b \in Has(u) : b \in Has(stacks[f]) \/ b \notin pages.owned \cup {NoBlock}
    BY <2>3, <2>8, <2>12, <2>13, BlockSizes DEF NoBlock
  <2>16. StacksIn(stacks) /\ HeldIn(pages.owned, stacks, array) BY InvHas
  <2>17. StacksIn(t) /\ HeldIn(w, t, array)
    BY <2>2, <2>5, <2>12, <2>14, <2>15, <2>16, StackChanged
  <2>18. t[f] = u BY <2>2, <2>3, <2>5
  <2>19. CallIn(t, calling') BY <2>2, <2>6, <2>12, <2>18 DEF CallIn, f
  <2> QED BY <1>1, <2>10, <2>17, <2>19 DEF InvIn, t, w
<1> QED BY <1>1, <1>2, <1>3

LEMMA InvGrowChunks == Inv /\ GrowChunks => Inv'
<1> SUFFICES ASSUME Inv, GrowChunks PROVE Inv' OBVIOUS
<1> DEFINE f == calling.fiber
           Grown(r) ==
               /\ pages' = r.state
               /\ stacks' = [stacks EXCEPT ![f].chunks = @ \o ChunksOf(r.block),
                                           ![f].capacity = @ + 1,
                                           ![f].status = IF stacks[f].capacity + 1 > MaxChunks
                                                         THEN "overflow" ELSE @]
               /\ calling' = IF stacks[f].capacity + 1 > MaxChunks THEN Idle ELSE calling
<1>1. /\ calling # Idle /\ array' = array
      /\ (\E r \in Allocated(pages, 1) : Grown(r)) \/ OutOfPages(1)
  BY DEF GrowChunks
<1>2. CASE OutOfPages(1) BY <1>1, <1>2, InvOutOfPages
<1>3. CASE \E r \in Allocated(pages, 1) : Grown(r)
  <2> SUFFICES InvIn(pages', stacks', array', calling') BY DEF Inv
  <2>1. PICK r \in Allocated(pages, 1) : Grown(r) BY <1>3
  <2>2. f \in Fibers /\ stacks[f].status = "live" /\ CallIn(stacks, calling) BY <1>1, InvHas DEF CallIn
  <2>3. /\ StackOK(stacks[f]) /\ stacks[f] \in StackRecords /\ stacks \in [Fibers -> StackRecords]
        /\ Distinct(stacks[f]) /\ Has(stacks[f]) = BlocksIn(stacks[f])
        /\ Has(stacks[f]) \subseteq pages.owned
    BY <2>2, InvHas DEF StackOK
  <2> DEFINE x == IF stacks[f].capacity + 1 > MaxChunks THEN "overflow" ELSE "live"
             u == [stacks[f] EXCEPT !.chunks = @ \o ChunksOf(r.block), !.capacity = @ + 1, !.status = x]
             t == stacks'
             w == pages'.owned
  <2>5. t = [stacks EXCEPT ![f] = u] BY <2>1, <2>2, <2>3 DEF StackRecords
  <2>6. (calling' = calling /\ x = "live") \/ calling' = Idle BY <2>1
  <2>7. x \in {"live", "overflow"} OBVIOUS
  <2>8. /\ Pages(r.state) /\ r.block \in Blocks
        /\ r.block \notin pages.owned
        /\ r.state.owned = pages.owned \cup {r.block}
    BY InvHas, AllocatedPages
  <2>10. Pages(pages') /\ w = r.state.owned BY <2>1, <2>8
  <2> HIDE DEF f, x, Grown
  <2>11. r.block \notin BlocksIn(stacks[f]) BY <2>3, <2>8
  <2>12. /\ StackOK(u) /\ u.status = x /\ Distinct(u)
         /\ BlocksIn(u) = BlocksIn(stacks[f]) \cup {r.block}
    <3>2. stacks[f].status # "absent" BY <2>2
    <3>3. PICK st, b, y, v : st = stacks[f] /\ b = r.block /\ y = x /\ v = u
      OBVIOUS
    <3>4. v = [st EXCEPT !.chunks = @ \o ChunksOf(b), !.capacity = @ + 1, !.status = y] BY <3>3
    <3>5. /\ StackOK(st) /\ st.status # "absent" /\ b \in Blocks
          /\ Distinct(st) /\ b \notin BlocksIn(st) /\ y \in {"live", "overflow"}
      BY <2>3, <2>7, <2>8, <2>11, <3>2, <3>3
    <3> HIDE DEF u
    <3>6. StackOK(v) /\ v.status = y /\ Distinct(v) /\ BlocksIn(v) = BlocksIn(st) \cup {b}
      BY <3>4, <3>5, MoreChunks
    <3> QED BY <3>3, <3>6
  <2> HIDE DEF u, t, w
  <2>13. Has(u) = BlocksIn(u) BY <2>7, <2>12 DEF Has
  <2>14. w = (pages.owned \ Has(stacks[f])) \cup Has(u) BY <2>3, <2>8, <2>10, <2>12, <2>13
  <2>15. \A b \in Has(u) : b \in Has(stacks[f]) \/ b \notin pages.owned \cup {NoBlock}
    BY <2>3, <2>8, <2>12, <2>13, BlockSizes DEF NoBlock
  <2>16. StacksIn(stacks) /\ HeldIn(pages.owned, stacks, array) BY InvHas
  <2>17. StacksIn(t) /\ HeldIn(w, t, array)
    BY <2>2, <2>5, <2>12, <2>14, <2>15, <2>16, StackChanged
  <2>18. t[f] = u BY <2>2, <2>3, <2>5
  <2>19. CallIn(t, calling') BY <2>2, <2>6, <2>12, <2>18 DEF CallIn, f
  <2> QED BY <1>1, <2>10, <2>17, <2>19 DEF InvIn, t, w
<1> QED BY <1>1, <1>2, <1>3

(* A step that changes the frames of one stack only.                         *)
LEMMA InvFrames ==
    ASSUME Inv, NEW f \in Fibers, stacks[f].status = "live",
           NEW u, StackOK(u), u.status = "live", Distinct(stacks[f]) => Distinct(u),
           BlocksIn(u) = BlocksIn(stacks[f]),
           stacks' = [stacks EXCEPT ![f] = u], UNCHANGED <<pages, array>>, calling' \in {calling, Idle}
    PROVE  Inv'
<1> SUFFICES InvIn(pages', stacks', array', calling') BY DEF Inv
<1> DEFINE t == stacks'
<1>1. t = [stacks EXCEPT ![f] = u] /\ t[f] = u /\ \A g \in Fibers \ {f} : t[g] = stacks[g] BY InvHas
<1>2. Distinct(u) BY InvHas
<1>3. Has(stacks[f]) = BlocksIn(stacks[f]) /\ Has(u) = Has(stacks[f]) /\ Has(stacks[f]) \subseteq pages.owned
  BY InvHas DEF Has
<1>4. pages.owned = (pages.owned \ Has(stacks[f])) \cup Has(u) BY <1>3
<1> HIDE DEF t
<1>5. StacksIn(t) /\ HeldIn(pages.owned, t, array)
  <2>1. StacksIn(stacks) /\ HeldIn(pages.owned, stacks, array) BY InvHas
  <2>2. \A b \in Has(u) : b \in Has(stacks[f]) \/ b \notin pages.owned \cup {NoBlock} BY <1>3
  <2> QED BY <1>1, <1>2, <1>4, <2>1, <2>2, StackChanged
<1>6. CallIn(t, calling')
  <2>1. CallIn(stacks, calling) BY InvHas
  <2> QED BY <1>1, <2>1 DEF CallIn
<1> QED BY <1>5, <1>6, InvHas DEF InvIn, t

(* A call whose frame fits no page ends the model. *)
LEMMA InvOverrun ==
    ASSUME Inv, EnterFunction, Oversized
    PROVE  Inv'
<1> SUFFICES InvIn(pages', stacks', array', calling') BY DEF Inv
<1>1. calling' = Idle /\ UNCHANGED <<pages, stacks, array>> BY DEF EnterFunction
<1> QED BY <1>1, InvHas DEF InvIn, CallIn

LEMMA InvEnterFunction == Inv /\ EnterFunction => Inv'
<1> SUFFICES ASSUME Inv, EnterFunction, ~Oversized PROVE Inv' BY InvOverrun
<1> DEFINE f == calling.fiber
           st == stacks[f]
           top == TopFrame(f)
           fr == IF LacksChunk(top) THEN NewFrame(top.chunk + 1, ChunkHeader)
                                    ELSE NewFrame(top.chunk, top.at + top.size)
           u == [st EXCEPT !.frames = Append(@, fr)]
<1>1. /\ calling # Idle /\ ~LacksValues
      /\ LacksChunk(top) => top.chunk < Len(st.chunks)
      /\ ~ Oversized
      /\ stacks' = [stacks EXCEPT ![f].frames = Append(@, fr)]
      /\ calling' = Idle /\ UNCHANGED <<pages, array>>
  BY DEF EnterFunction
<1>2. /\ f \in Fibers /\ st.status = "live"
      /\ calling.size \in FrameSizes /\ calling.need \in Needs /\ calling.used \in Nat
  BY <1>1, InvHas DEF CallIn
<1>3. StackOK(st) /\ st \in StackRecords /\ stacks \in [Fibers -> StackRecords] BY <1>2, InvHas DEF StackOK
<1>4. stacks' = [stacks EXCEPT ![f] = u] BY <1>1, <1>2, <1>3 DEF StackRecords
<1>5. st.frames \in Seq(Frames) /\ st.frames # <<>> /\ st.values \in Blocks BY <1>2, <1>3 DEF StackOK, StackRecords
<1>6. top \in Frames /\ top = st.frames[Len(st.frames)] BY <1>5 DEF TopFrame
<1>7. top.chunk \in Nat /\ top.at \in Nat /\ top.size \in Nat BY <1>6 DEF Frames
<1>8. /\ calling.size \in Nat /\ calling.need \in Nat /\ ChunkHeader + calling.size <= PageSize
      /\ ChunkHeader \in Nat /\ PageSize \in Nat /\ Reserved \in Nat
  <2>1. /\ calling.size \in Nat /\ calling.need \in Nat
        /\ ChunkHeader \in Nat /\ PageSize \in Nat /\ Reserved \in Nat
    BY <1>2, Sizes
  <2> QED BY <1>1, <2>1 DEF Oversized
<1>9. LacksChunk(top) <=> top.size + calling.size > PageSize - (top.at + top.size) BY DEF LacksChunk
<1>10. /\ fr.size = calling.size /\ fr.depth = calling.used /\ fr.need = calling.need
       /\ \/ LacksChunk(top) /\ fr.chunk = top.chunk + 1 /\ fr.at = ChunkHeader
          \/ ~LacksChunk(top) /\ fr.chunk = top.chunk /\ fr.at = top.at + top.size
       /\ fr \in Frames
  <2>1. top.chunk + 1 \in Nat /\ top.at + top.size \in Nat BY <1>7
  <2> HIDE DEF top
  <2> QED BY <1>2, <1>7, <1>8, <2>1 DEF NewFrame, Frames
<1>11. fr.depth + fr.need + Reserved <= Room(st)
  <2>1. ~(calling.need > Room(st) - Reserved - calling.used) BY <1>1 DEF LacksValues, Capacity, Room
  <2>2. Room(st) \in Nat
    <3>1. st.values.size \in Nat /\ ValuesPerPage \in Nat BY <1>5, BlockSizes, Sizes
    <3>2. \A i, j \in Nat : i * j \in Nat OBVIOUS
    <3> QED BY <3>1, <3>2 DEF Room
  <2> HIDE DEF fr, st
  <2> QED BY <1>2, <1>8, <1>10, <2>1, <2>2
<1> HIDE DEF fr, top
<1>12. fr.at + fr.size <= PageSize BY <1>7, <1>8, <1>9, <1>10
<1>13. \/ fr.chunk = top.chunk /\ fr.at = top.at + top.size
       \/ fr.chunk = top.chunk + 1 /\ fr.chunk <= Len(st.chunks) /\ fr.at = ChunkHeader
  <2>1. st.chunks \in Seq(Chunks) BY <1>3 DEF StackRecords
  <2>2. Len(st.chunks) \in Nat BY <2>1
  <2> HIDE DEF st
  <2> QED BY <1>1, <1>7, <1>10, <2>2
<1>14. /\ StackOK(u) /\ u.status = st.status
       /\ BlocksIn(u) = BlocksIn(st)
       /\ Distinct(st) => Distinct(u)
  BY <1>2, <1>3, <1>6, <1>10, <1>11, <1>12, <1>13, MoreFrames
<1> HIDE DEF u, f
<1> QED BY <1>1, <1>2, <1>4, <1>14, InvFrames

LEMMA InvReturn ==
    ASSUME Inv, NEW f \in Fibers, Return(f)
    PROVE  Inv'
<1> DEFINE st == stacks[f]
           u == [st EXCEPT !.frames = SubSeq(@, 1, Len(@) - 1)]
<1>1. /\ st.status = "live" /\ Len(st.frames) > 1
      /\ stacks' = [stacks EXCEPT ![f].frames = SubSeq(@, 1, Len(@) - 1)]
      /\ UNCHANGED <<pages, array>> /\ calling' = calling
  BY DEF Return
<1>2. StackOK(st) /\ stacks \in [Fibers -> StackRecords] BY InvHas
<1>3. stacks' = [stacks EXCEPT ![f] = u] BY <1>1, <1>2
<1>4. /\ StackOK(u) /\ u.status = st.status
      /\ BlocksIn(u) = BlocksIn(st)
      /\ Distinct(st) => Distinct(u)
  BY <1>1, <1>2, FewerFrames
<1> HIDE DEF u
<1> QED BY <1>1, <1>3, <1>4, InvFrames

(* The states of the allocator while the chunks are given back, in order.    *)
LEMMA FreedExists ==
    ASSUME NEW s, NEW cs
    PROVE  \A n \in Nat : \E after : after =
              [i \in 0..n |-> IF i = 0 THEN s
                              ELSE IF i \in Firsts(cs) THEN Deallocated(after[i - 1], BlockAt(cs[i]))
                              ELSE after[i - 1]]
<1> DEFINE Step(x, i) == IF i \in Firsts(cs) THEN Deallocated(x, BlockAt(cs[i])) ELSE x
           S == {n \in Nat : \E after : after = [i \in 0..n |-> IF i = 0 THEN s ELSE Step(after[i - 1], i)]}
<1>1. 0 \in S
  <2> HIDE DEF Step
  <2> DEFINE f == [i \in 0..0 |-> s]
  <2>1. f = [i \in 0..0 |-> IF i = 0 THEN s ELSE Step(f[i - 1], i)] OBVIOUS
  <2> HIDE DEF f
  <2> QED BY <2>1
<1>2. \A n \in Nat : n \in S => n + 1 \in S
  <2> HIDE DEF Step
  <2> SUFFICES ASSUME NEW n \in Nat, n \in S PROVE n + 1 \in S OBVIOUS
  <2>1. PICK f : f = [i \in 0..n |-> IF i = 0 THEN s ELSE Step(f[i - 1], i)] OBVIOUS
  <2> DEFINE g == [i \in 0..n + 1 |-> IF i = n + 1 THEN Step(f[n], n + 1) ELSE f[i]]
  <2>2. \A i \in 0..n + 1 : g[i] = IF i = 0 THEN s ELSE Step(g[i - 1], i)
    <3> TAKE i \in 0..n + 1
    <3>1. CASE i = n + 1
      <4>1. i - 1 \in 0..n + 1 /\ i - 1 = n /\ n # n + 1 /\ i # 0 BY <3>1
      <4> QED BY <3>1, <4>1
    <3>2. CASE i = 0 BY <2>1, <3>2
    <3>3. CASE i # n + 1 /\ i # 0
      <4>1. i \in 0..n /\ i - 1 \in 0..n + 1 /\ i - 1 # n + 1 BY <3>3
      <4>2. f[i] = Step(f[i - 1], i) BY <2>1, <3>3, <4>1
      <4> QED BY <3>3, <4>1, <4>2
    <3> QED BY <3>1, <3>2, <3>3
  <2>3. g = [i \in 0..n + 1 |-> g[i]] OBVIOUS
  <2> HIDE DEF g
  <2>4. g = [i \in 0..n + 1 |-> IF i = 0 THEN s ELSE Step(g[i - 1], i)] BY <2>2, <2>3
  <2> QED BY <2>4
<1> HIDE DEF S
<1>3. Nat \subseteq S BY <1>1, <1>2, Induction
<1> QED BY <1>3 DEF S

LEMMA FreedPages ==
    ASSUME NEW s, Pages(s), NEW cs \in Seq(Chunks),
           \A i, j \in Firsts(cs) : i # j => BlockAt(cs[i]) # BlockAt(cs[j]),
           \A i \in Firsts(cs) : BlockAt(cs[i]) \in s.owned,
           NEW after, after = [i \in 0..Len(cs) |->
              IF i = 0 THEN s
              ELSE IF i \in Firsts(cs) THEN Deallocated(after[i - 1], BlockAt(cs[i]))
              ELSE after[i - 1]]
    PROVE  Pages(after[Len(cs)]) /\ after[Len(cs)].owned = s.owned \ {BlockAt(cs[i]) : i \in Firsts(cs)}
<1> DEFINE n == Len(cs)
           Rest(k) == {b \in s.owned : \A i \in Firsts(cs) : i <= k => b # BlockAt(cs[i])}
           Done(k) == Pages(after[k]) /\ after[k].owned = Rest(k)
           S == {k \in Nat : k <= n => Done(k)}
<1>1. n \in Nat /\ Firsts(cs) \subseteq 1..n BY DEF Firsts
<1> HIDE DEF n, Rest
<1>2. after[0] = s BY <1>1 DEF n
<1>3. \A k \in Nat : k + 1 <= n =>
         after[k + 1] = IF k + 1 \in Firsts(cs) THEN Deallocated(after[k], BlockAt(cs[k + 1])) ELSE after[k]
  <2> TAKE k \in Nat
  <2> HAVE k + 1 <= n
  <2>1. k + 1 \in 0..n /\ k + 1 # 0 /\ k + 1 - 1 = k BY <1>1
  <2>2. after[k + 1] = IF k + 1 \in Firsts(cs) THEN Deallocated(after[k + 1 - 1], BlockAt(cs[k + 1])) ELSE after[k + 1 - 1]
    BY <2>1 DEF n
  <2> QED BY <2>1, <2>2
<1>4. 0 \in S
  <2>1. \A i \in Firsts(cs) : ~(i <= 0) BY <1>1
  <2>2. Rest(0) = s.owned BY <2>1 DEF Rest
  <2> QED BY <1>2, <2>2
<1>5. \A k \in Nat : k \in S => k + 1 \in S
  <2> SUFFICES ASSUME NEW k \in Nat, k \in S, k + 1 <= n
               PROVE  Done(k + 1)
    <3> HIDE DEF Done
    <3> QED OBVIOUS
  <2>1. Pages(after[k]) /\ after[k].owned = Rest(k)
    <3>1. k <= n BY <1>1
    <3> QED BY <3>1
  <2>2. CASE k + 1 \in Firsts(cs)
    <3> DEFINE b == BlockAt(cs[k + 1])
    <3>1. after[k + 1] = Deallocated(after[k], b) BY <1>3, <2>2
    <3>2. b \in Rest(k)
      <4>1. \A i \in Firsts(cs) : i <= k => i # k + 1 BY <1>1
      <4>2. b \in s.owned BY <2>2
      <4> QED BY <2>2, <4>1, <4>2 DEF Rest
    <3>3. Rest(k + 1) = Rest(k) \ {b}
      <4>1. \A i \in Firsts(cs) : i <= k + 1 <=> i <= k \/ i = k + 1 BY <1>1
      <4> QED BY <2>2, <4>1 DEF Rest
    <3> HIDE DEF b
    <3>4. Pages(Deallocated(after[k], b)) /\ Deallocated(after[k], b).owned = after[k].owned \ {b}
      BY <2>1, <3>2, DeallocatedPages
    <3> QED BY <2>1, <3>1, <3>3, <3>4
  <2>3. CASE k + 1 \notin Firsts(cs)
    <3>1. after[k + 1] = after[k] BY <1>3, <2>3
    <3>2. \A i \in Firsts(cs) : i <= k + 1 <=> i <= k BY <1>1, <2>3
    <3>3. Rest(k + 1) = Rest(k) BY <3>2 DEF Rest
    <3> QED BY <2>1, <3>1, <3>3
  <2> QED BY <2>2, <2>3
<1> HIDE DEF S
<1>6. n \in S BY <1>1, <1>4, <1>5, Induction
<1>7. Pages(after[n]) /\ after[n].owned = Rest(n) BY <1>1, <1>6 DEF S
<1>8. Rest(n) = s.owned \ {BlockAt(cs[i]) : i \in Firsts(cs)}
  <2>1. \A i \in Firsts(cs) : i <= n BY <1>1
  <2> QED BY <2>1 DEF Rest
<1> QED BY <1>7, <1>8 DEF n

LEMMA InvDestroyFiber ==
    ASSUME Inv, NEW f \in Fibers, DestroyFiber(f)
    PROVE  Inv'
<1> SUFFICES InvIn(pages', stacks', array', calling') BY DEF Inv
<1> DEFINE st == stacks[f]
           cs == st.chunks
           s == Deallocated(pages, st.values)
           after == CHOOSE after : after = [i \in 0..Len(cs) |->
              IF i = 0 THEN s
              ELSE IF i \in Firsts(cs) THEN Deallocated(after[i - 1], BlockAt(cs[i]))
              ELSE after[i - 1]]
<1>1. /\ calling = Idle /\ calling' = calling /\ array' = array
      /\ st.status # "absent" /\ stacks' = [stacks EXCEPT ![f] = Absent]
  BY DEF DestroyFiber, Running
<1>2. pages' = after[Len(cs)] BY DEF DestroyFiber
<1>3. /\ StackOK(st) /\ Distinct(st) /\ Has(st) = BlocksIn(st) /\ Has(st) \subseteq pages.owned
      /\ Pages(pages) /\ StacksIn(stacks) /\ HeldIn(pages.owned, stacks, array)
  BY <1>1, InvHas
<1>4. cs \in Seq(Chunks) BY <1>3 DEF StackOK, StackRecords
<1> HIDE DEF s, cs
<1>5. Len(cs) \in Nat BY <1>4
<1>6. after = [i \in 0..Len(cs) |->
              IF i = 0 THEN s
              ELSE IF i \in Firsts(cs) THEN Deallocated(after[i - 1], BlockAt(cs[i]))
              ELSE after[i - 1]]
  BY <1>5, FreedExists
<1> HIDE DEF after
<1>7. Pages(s) /\ s.owned = pages.owned \ {st.values}
  <2>1. st.values \in pages.owned BY <1>3 DEF BlocksIn
  <2> QED BY <1>3, <2>1, DeallocatedPages DEF s
<1>8. /\ \A i, j \in Firsts(cs) : i # j => BlockAt(cs[i]) # BlockAt(cs[j])
      /\ \A i \in Firsts(cs) : BlockAt(cs[i]) \in s.owned
  BY <1>3, <1>7 DEF Distinct, BlocksIn, cs
<1>9. Pages(after[Len(cs)]) /\ after[Len(cs)].owned = s.owned \ {BlockAt(cs[i]) : i \in Firsts(cs)}
  BY <1>4, <1>6, <1>7, <1>8, FreedPages
<1> DEFINE t == stacks'
           w == after[Len(cs)].owned
<1>10. w = (pages.owned \ Has(st)) \cup Has(Absent)
  <2>1. Has(Absent) = {} BY DEF Has, Absent
  <2>2. Has(st) = {BlockAt(cs[i]) : i \in Firsts(cs)} \cup {st.values} BY <1>3 DEF BlocksIn, cs
  <2> HIDE DEF st
  <2> QED BY <1>7, <1>9, <2>1, <2>2
<1>11. StackOK(Absent) /\ Absent.status = "absent" /\ Has(Absent) = {}
  BY DEF StackOK, StackRecords, Absent, Has
<1>12. t = [stacks EXCEPT ![f] = Absent] BY <1>1
<1> HIDE DEF t, w
<1>13. StacksIn(t) /\ HeldIn(w, t, array) BY <1>3, <1>10, <1>11, <1>12, StackChanged
<1> QED BY <1>1, <1>2, <1>9, <1>13 DEF InvIn, CallIn, t, w

LEMMA InvDestroyVM == Inv /\ DestroyVM => Over'
<1> SUFFICES ASSUME Inv, DestroyVM PROVE Over' OBVIOUS
<1> DEFINE s == IF array = NoBlock THEN pages ELSE Deallocated(pages, array)
<1>1. /\ \A f \in Fibers : stacks[f].status = "absent"
      /\ pages' = Released(s) /\ array' = NoBlock /\ stacks' = stacks
      /\ ended' /\ calling' = Idle
  BY DEF DestroyVM, Running
<1>2. \A f \in Fibers : Has(stacks[f]) = {} BY <1>1 DEF Has
<1>3. HeldIn(pages.owned, stacks, array) BY InvHas
<1>4. \A b : b \in pages.owned <=> b = array /\ b # NoBlock BY <1>2, <1>3 DEF HeldIn
<1>5. Pages(s) /\ s.owned = {}
  <2>1. CASE array = NoBlock BY <1>4, <2>1, InvHas
  <2>2. CASE array # NoBlock
    <3>1. array \in pages.owned BY <1>4, <2>2
    <3>2. Pages(s) /\ s.owned = pages.owned \ {array} BY <2>2, <3>1, InvHas, DeallocatedPages
    <3> QED BY <1>4, <3>2
  <2> QED BY <2>1, <2>2
<1> HIDE DEF s
<1>6. Gone(Released(s)) BY <1>5, ReleasedGone
<1>7. stacks \in [Fibers -> StackRecords] BY InvHas
<1> QED BY <1>1, <1>6, <1>7 DEF Over

LEMMA OverStays == Over /\ [Next]_vars => Over'
<1> SUFFICES ASSUME Over, [Next]_vars PROVE Over' OBVIOUS
<1>1. ~Next
  BY DEF Over, Next, GrowArray, CreateFiber, Return, DestroyFiber, Call, GrowValues, GrowChunks, EnterFunction,
         DestroyVM, Running
<1>2. UNCHANGED vars BY <1>1
<1> QED BY <1>2 DEF vars, Over

LEMMA InvInductive == Spec => [](Inv \/ Over)
<1>1. Inv /\ [Next]_vars => (Inv \/ Over)'
  <2> SUFFICES ASSUME Inv, [Next]_vars PROVE Inv' \/ Over' OBVIOUS
  <2>1. CASE UNCHANGED vars BY <2>1 DEF vars, Inv
  <2>2. CASE \E f \in Fibers :
               \/ CreateFiber(f)
               \/ Return(f)
               \/ DestroyFiber(f)
               \/ \E size \in FrameSizes, need \in Needs, used \in Needs : Call(f, size, need, used)
    BY <2>2, InvCreateFiber, InvReturn, InvDestroyFiber, InvCall
  <2> QED BY <2>1, <2>2, InvGrowArray, InvGrowValues, InvGrowChunks, InvEnterFunction, InvDestroyVM DEF Next
<1>2. (Inv \/ Over) /\ [Next]_vars => (Inv \/ Over)' BY <1>1, OverStays
<1> QED BY <1>2, InvStart, PTL DEF Spec

-----------------------------------------------------------------------------
(* The theorems *)

(* No page is in two places, with the clients that the allocator really has. *)
THEOREM StacksShareNoPage == Spec => []NoPageTwice
<1>1. Inv \/ Over => NoPageTwice
  BY DEF Inv, InvIn, Over, Gone, Pages, Sound, NoPageTwice, ListApart, OwnedApart, BothApart, Apart
<1> QED BY <1>1, InvInductive, PTL

(* No page is lost or counted wrong, up to the end of the VM.                *)
THEOREM StacksLoseNoPage == Spec => []NoPageLost
<1>1. Inv \/ Over => NoPageLost
  BY DEF Inv, InvIn, Over, Gone, Pages, Sound, Accounted, Covered, NoPageLost
<1> QED BY <1>1, InvInductive, PTL

(* The stacks and the array hold the blocks the allocator has given out, all *)
(* of them and none twice: growing, moving and destroying give back what was *)
(* got, with the size it was got with, also from a list of chunks.           *)
THEOREM ClientsHoldTheirBlocks == Spec => []HeldIsOwned
<1>1. Inv => HeldIsOwned
  <2> SUFFICES ASSUME Inv PROVE HeldIsOwned OBVIOUS
  <2>1. \A f \in Live : f \in Fibers /\ BlocksOf(f) = Has(stacks[f]) BY DEF Live, BlocksOf, BlocksIn, Has
  <2>2. \A f \in Fibers : f \notin Live => Has(stacks[f]) = {} BY DEF Live, Has
  <2>3. /\ \A b : b \in pages.owned <=> (\E f \in Fibers : b \in Has(stacks[f])) \/ (b = array /\ b # NoBlock)
        /\ \A f, g \in Fibers : f # g => Has(stacks[f]) \cap Has(stacks[g]) = {}
    BY DEF Inv, InvIn, HeldIn
  <2> DEFINE U == UNION {BlocksOf(f) : f \in Live}
  <2>4. \A b : b \in U <=> \E f \in Live : b \in BlocksOf(f) OBVIOUS
  <2> HIDE DEF U
  <2>5. \A b : b \in pages.owned <=> b \in U \cup ({array} \ {NoBlock})
    <3> HIDE DEF Has, BlocksOf
    <3> TAKE b
    <3>1. (\E f \in Fibers : b \in Has(stacks[f])) <=> \E f \in Live : b \in BlocksOf(f)
      BY <2>1, <2>2
    <3> QED BY <2>3, <2>4, <3>1
  <2>6. pages.owned = U \cup ({array} \ {NoBlock}) BY <2>5
  <2>7. \A f, g \in Live : f # g => BlocksOf(f) \cap BlocksOf(g) = {} BY <2>1, <2>3
  <2>8. pages.owned = (UNION {BlocksOf(f) : f \in Live}) \cup ({array} \ {NoBlock}) BY <2>6 DEF U
  <2> QED BY <2>7, <2>8 DEF HeldIsOwned
<1>2. Over => HeldIsOwned BY DEF Over, Gone, HeldIsOwned, Live
<1> QED BY <1>1, <1>2, InvInductive, PTL

(* Frames lie inside a page of the call stack of their fiber and apart, for  *)
(* every list of chunks and every order of calls and returns, until a call   *)
(* whose frame fits no page, which is undefined.                             *)
THEOREM FramesKeepToChunks == Spec => []FramesInChunks
<1>1. Inv => FramesInChunks
  <2> SUFFICES ASSUME Inv, NEW f \in Live PROVE FramesFit(stacks[f])
    BY DEF FramesInChunks, FramesFit
  <2> QED BY InvHas DEF Live, StackOK
<1>2. Over => FramesInChunks BY DEF Over, FramesInChunks, Live
<1> QED BY <1>1, <1>2, InvInductive, PTL

(* Values that a function pushes have room, and a builtin's after them.      *)
THEOREM ValuesHaveRoom == Spec => []ValuesFit
<1>1. Inv => ValuesFit
  <2> SUFFICES ASSUME Inv, NEW f \in Live PROVE HasRoom(stacks[f])
    BY DEF ValuesFit, HasRoom, Capacity, Room
  <2> QED BY InvHas DEF Live, StackOK
<1>2. Over => ValuesFit BY DEF Over, ValuesFit, Live
<1> QED BY <1>1, <1>2, InvInductive, PTL
=============================================================================
