---------------------------- MODULE PieceProofs -----------------------------
(***************************************************************************)
(* Theorems about the pieces of split blocks: that they tile their block,  *)
(* that a block is freed once, and that no entry is left behind by its     *)
(* block, for every value of the constants of Memory.  The programs are    *)
(* those that merge pieces in the order of the split and whose local       *)
(* variables are whole when their frame ends; a piece may have size zero.  *)
(***************************************************************************)
EXTENDS MemoryProofs

-----------------------------------------------------------------------------
(* The pieces of a block, as long as no split moves the table                *)

(* Every split has room for the piece it appends: no pointer to an entry is  *)
(* used after the table has moved.                                           *)
NothingMoved == \A a \in Addresses, offset \in SplitOffsets : ~Split(a, offset, TRUE)

SplitsStay == [][NothingMoved]_vars

(* An entry that ends its block.                                             *)
IsTail(e) == e.split \in {"unsplit", "split_last"}

(* What the split of an entry says about where in its block it lies.  All    *)
(* pieces but the last may be empty.                                         *)
PieceOK(e) ==
    /\ e.off + e.size <= e.blk.size
    /\ IsHead(e) => e.off = 0
    /\ IsTail(e) => e.off + e.size = e.blk.size
    /\ e.split = "split_last" => e.size > 0
    /\ e.split # "unsplit" => e.off < e.blk.size

Covers(e, x) == e.off <= x /\ x < e.off + e.size

(* Two pieces of one block.                                                  *)
Beside(d, e) ==
    /\ d.src = e.src
    /\ ~(IsHead(d) /\ IsHead(e))
    /\ ~(IsTail(d) /\ IsTail(e))
    /\ \/ d.size = 0 \/ e.size = 0
       \/ d.off + d.size <= e.off \/ e.off + e.size <= d.off

Unfreed(t) == {i \in 1..Len(t) : CanBeFreed(t[i])}

SameBlock(t, i) == {j \in Unfreed(t) : t[j].blk = t[i].blk}

(* The block of an entry has a beginning; one that has been freed has not,   *)
(* although empty pieces of it may be left.                                  *)
Headed(t, i) == \E j \in SameBlock(t, i) : IsHead(t[j])

(* The entries that are not freed tile their blocks.                         *)
Fits(t, i) ==
    /\ PieceOK(t[i])
    /\ \A j \in SameBlock(t, i) \ {i} : Beside(t[i], t[j])
    /\ Headed(t, i) => \A x \in 0..t[i].blk.size - 1 : \E j \in SameBlock(t, i) : Covers(t[j], x)
    /\ t[i].size > 0 => Headed(t, i)

Tiled(t) == \A i \in Unfreed(t) : Fits(t, i)

(* The process owns the heap blocks that have a beginning.                   *)
HeapOwned(t, blocks) ==
    \A b : b \in blocks <=> \E i \in Unfreed(t) : t[i].src = "heap" /\ IsHead(t[i]) /\ t[i].blk = b

(* The pieces of a block are where the split of each says.                   *)
LEMMA SplitPieces ==
    ASSUME NEW e \in Entries, PieceOK(e), NEW offset \in Nat, offset < e.size
    PROVE  LET h == HeadPiece(e, offset)
               p == TailPiece(e, offset)
           IN  /\ PieceOK(h) /\ PieceOK(p) /\ Beside(h, p) /\ Beside(p, h)
               /\ h.blk = e.blk /\ p.blk = e.blk /\ h.src = e.src /\ p.src = e.src
               /\ IsHead(h) <=> IsHead(e)
               /\ ~IsHead(p)
               /\ CanBeFreed(h) <=> CanBeFreed(e)
               /\ CanBeFreed(p) <=> CanBeFreed(e)
               /\ \A x \in Nat : Covers(e, x) => Covers(h, x) \/ Covers(p, x)
               /\ \A d \in Entries : Beside(d, e) => /\ Beside(d, h) /\ Beside(h, d)
                                                     /\ Beside(d, p) /\ Beside(p, d)
<1> DEFINE h == HeadPiece(e, offset)
           p == TailPiece(e, offset)
<1>1. /\ e.off \in Nat /\ e.size \in Nat /\ e.blk.size \in Nat /\ e.size > 0
      /\ e.split \in Splits
      BY DEF Entries, Blocks
<1>2. /\ h.off = e.off /\ h.size = offset /\ h.blk = e.blk /\ h.src = e.src /\ h.status = e.status
      /\ h.split = IF e.split \in {"unsplit", "split_first"} THEN "split_first" ELSE "split_middle"
      BY DEF HeadPiece, Entries
<1>3. /\ p.off = e.off + offset /\ p.size = e.size - offset /\ p.blk = e.blk /\ p.src = e.src
      /\ p.status = e.status
      /\ p.split = IF e.split \in {"unsplit", "split_last"} THEN "split_last" ELSE "split_middle"
      BY DEF TailPiece, Entries
<1> HIDE DEF h, p
<1>4. (IsHead(h) <=> IsHead(e)) /\ ~IsTail(h) /\ h.split # "unsplit" BY <1>2 DEF IsHead, IsTail
<1>5. (IsTail(p) <=> IsTail(e)) /\ ~IsHead(p) /\ p.split # "unsplit" BY <1>3 DEF IsHead, IsTail
<1>6. PieceOK(h)
  <2>1. h.split # "split_last" BY <1>2
  <2> QED BY <1>1, <1>2, <1>4, <2>1 DEF PieceOK
<1>7. PieceOK(p) BY <1>1, <1>3, <1>5 DEF PieceOK
<1>8. Beside(h, p) /\ Beside(p, h) BY <1>1, <1>2, <1>3, <1>4, <1>5 DEF Beside
<1>9. \A x \in Nat : Covers(e, x) => Covers(h, x) \/ Covers(p, x)
      BY <1>1, <1>2, <1>3 DEF Covers
<1>10. ASSUME NEW d \in Entries, Beside(d, e)
       PROVE  Beside(d, h) /\ Beside(h, d) /\ Beside(d, p) /\ Beside(p, d)
  <2>1. d.off \in Nat /\ d.size \in Nat BY DEF Entries
  <2>2. \/ d.size = 0 \/ d.off + d.size <= e.off \/ e.off + e.size <= d.off
        BY <1>1, <1>10 DEF Beside
  <2>3. /\ \/ d.size = 0 \/ d.off + d.size <= h.off \/ h.off + h.size <= d.off
        /\ \/ d.size = 0 \/ d.off + d.size <= p.off \/ p.off + p.size <= d.off
        BY <1>1, <1>2, <1>3, <2>1, <2>2
  <2> QED BY <1>2, <1>3, <1>4, <1>5, <1>10, <2>3 DEF Beside
<1>11. (CanBeFreed(h) <=> CanBeFreed(e)) /\ (CanBeFreed(p) <=> CanBeFreed(e))
      BY <1>2, <1>3 DEF CanBeFreed
<1> QED BY <1>2, <1>3, <1>4, <1>5, <1>6, <1>7, <1>8, <1>9, <1>10, <1>11 DEF h, p

(* The merged entry is where its split says, and alone if it is the block.   *)
LEMMA MergedPieces ==
    ASSUME NEW e1 \in Entries, NEW e2 \in Entries, PieceOK(e1), PieceOK(e2),
           e1.split # "unsplit", e2.split # "unsplit", e2.split # "split_first",
           e1.blk = e2.blk, Beside(e1, e2), Adjacent(e1, e2)
    PROVE  LET g == Grown(e1, e2)
           IN  /\ PieceOK(g) /\ g.blk = e1.blk /\ g.src = e1.src
               /\ g.size = e1.size + e2.size
               /\ IsHead(g) <=> IsHead(e1)
               /\ ~IsHead(e2)
               /\ CanBeFreed(g) <=> CanBeFreed(e1)
               /\ \A x \in Nat : Covers(e1, x) \/ Covers(e2, x) => Covers(g, x)
               /\ \A d \in Entries : Beside(d, e1) /\ Beside(d, e2) => Beside(d, g) /\ Beside(g, d)
<1> DEFINE g == Grown(e1, e2)
<1>1. /\ e1.off \in Nat /\ e1.size \in Nat /\ e1.blk.size \in Nat
      /\ e2.off \in Nat /\ e2.size \in Nat
      /\ e1.split \in Splits /\ e2.split \in Splits
      BY DEF Entries, Blocks
<1>2. /\ g.off = e1.off /\ g.size = e1.size + e2.size /\ g.blk = e1.blk /\ g.src = e1.src
      /\ g.status = e1.status
      /\ g.split = IF e2.split # "split_last" THEN e1.split
                   ELSE IF e1.split = "split_first" THEN "unsplit" ELSE "split_last"
      BY DEF Grown, Entries
<1> HIDE DEF g
<1>3. e2.off = e1.off + e1.size /\ g.off + g.size = e2.off + e2.size BY <1>1, <1>2 DEF Adjacent
<1>4. e1.split # "split_last"
  <2>1. e2.off < e1.blk.size BY DEF PieceOK
  <2>2. e1.split = "split_last" => e1.off + e1.size = e1.blk.size BY DEF PieceOK, IsTail
  <2> QED BY <1>1, <1>3, <2>1, <2>2
<1>5. e1.split \in {"split_first", "split_middle"} /\ e2.split \in {"split_middle", "split_last"}
      BY <1>1, <1>4 DEF Splits
<1>6. (IsHead(g) <=> IsHead(e1)) /\ ~IsHead(e2) BY <1>2, <1>5 DEF IsHead
<1>7. (IsTail(g) <=> IsTail(e2)) /\ ~IsTail(e1) BY <1>2, <1>5 DEF IsTail
<1>8. PieceOK(g)
  <2>1. g.off + g.size <= g.blk.size BY <1>2, <1>3 DEF PieceOK
  <2>2. IsHead(g) => g.off = 0 BY <1>2, <1>6 DEF PieceOK
  <2>3. IsTail(g) => g.off + g.size = g.blk.size BY <1>2, <1>3, <1>7 DEF PieceOK
  <2>4. g.split = "split_last" => g.size > 0
    <3>1. g.split = "split_last" => e2.split = "split_last" BY <1>2, <1>5
    <3> QED BY <1>1, <1>2, <3>1 DEF PieceOK
  <2>5. g.off < g.blk.size BY <1>2 DEF PieceOK
  <2> QED BY <2>1, <2>2, <2>3, <2>4, <2>5 DEF PieceOK
<1>9. \A x \in Nat : Covers(e1, x) \/ Covers(e2, x) => Covers(g, x)
      BY <1>1, <1>2, <1>3 DEF Covers
<1>10. ASSUME NEW d \in Entries, Beside(d, e1), Beside(d, e2)
       PROVE  Beside(d, g) /\ Beside(g, d)
  <2>1. d.off \in Nat /\ d.size \in Nat BY DEF Entries
  <2>2. /\ d.size = 0 \/ e1.size = 0 \/ d.off + d.size <= e1.off \/ e1.off + e1.size <= d.off
        /\ d.size = 0 \/ e2.size = 0 \/ d.off + d.size <= e2.off \/ e2.off + e2.size <= d.off
        BY <1>10 DEF Beside
  <2>3. d.size = 0 \/ g.size = 0 \/ d.off + d.size <= g.off \/ g.off + g.size <= d.off
        BY <1>1, <1>2, <1>3, <2>1, <2>2
  <2> QED BY <1>2, <1>6, <1>7, <1>10, <2>3 DEF Beside
<1>11. CanBeFreed(g) <=> CanBeFreed(e1) BY <1>2 DEF CanBeFreed
<1> QED BY <1>2, <1>6, <1>8, <1>9, <1>10, <1>11 DEF g

(* Two tables with the same entries of the block of an entry.                *)
LEMMA SameFits ==
    ASSUME NEW t, NEW u, NEW i, i \in Unfreed(u), Fits(t, i), SameBlock(u, i) = SameBlock(t, i),
           \A j \in SameBlock(t, i) : SameForm(u[j], t[j])
    PROVE  Fits(u, i)
<1>1. i \in SameBlock(t, i) BY DEF SameBlock
<1>2. SameForm(u[i], t[i]) BY <1>1
<1>3. PieceOK(u[i]) BY <1>2 DEF Fits, SameForm, PieceOK, IsHead, IsTail
<1>4. ASSUME NEW j \in SameBlock(u, i) \ {i} PROVE Beside(u[i], u[j])
  <2>1. Beside(t[i], t[j]) BY DEF Fits
  <2> QED BY <1>2, <2>1 DEF SameForm, Beside, IsHead, IsTail
<1>5. Headed(u, i) <=> Headed(t, i) BY DEF Headed, SameForm, IsHead
<1>6. ASSUME Headed(u, i), NEW x \in 0..u[i].blk.size - 1
      PROVE  \E j \in SameBlock(u, i) : Covers(u[j], x)
  <2>1. x \in 0..t[i].blk.size - 1 BY <1>2 DEF SameForm
  <2>2. PICK j \in SameBlock(t, i) : Covers(t[j], x) BY <1>5, <1>6, <2>1 DEF Fits
  <2> QED BY <2>2 DEF SameForm, Covers
<1>7. u[i].size > 0 => Headed(u, i) BY <1>2, <1>5 DEF Fits, SameForm
<1> QED BY <1>3, <1>4, <1>6, <1>7 DEF Fits

(* A step that changes no more than whether entries are poisoned.            *)
LEMMA TouchedTiled ==
    ASSUME NEW t, NEW u, NEW blocks, Tiled(t), HeapOwned(t, blocks), Len(u) = Len(t),
           \A i \in 1..Len(t) : /\ SameForm(u[i], t[i])
                                /\ CanBeFreed(u[i]) <=> CanBeFreed(t[i])
    PROVE  Tiled(u) /\ HeapOwned(u, blocks)
<1>1. Unfreed(u) = Unfreed(t) BY DEF Unfreed
<1>2. \A i \in Unfreed(t) : SameForm(u[i], t[i]) BY DEF Unfreed
<1>3. \A i \in Unfreed(t) : SameBlock(u, i) = SameBlock(t, i) BY <1>1, <1>2 DEF SameBlock, SameForm
<1>4. ASSUME NEW i \in Unfreed(u) PROVE Fits(u, i)
  <2>1. Fits(t, i) /\ SameBlock(u, i) = SameBlock(t, i) BY <1>1, <1>3 DEF Tiled
  <2>2. \A j \in SameBlock(t, i) : SameForm(u[j], t[j]) BY <1>2 DEF SameBlock
  <2> QED BY <2>1, <2>2, SameFits
<1>5. HeapOwned(u, blocks) BY <1>1, <1>2 DEF HeapOwned, SameForm, IsHead
<1> QED BY <1>4, <1>5 DEF Tiled

(* An entry of a whole block.                                                *)
Whole(e) == e.off = 0 /\ e.split = "unsplit" /\ e.size = e.blk.size

(* A block with nothing but its one entry is tiled.                          *)
LEMMA WholeFits ==
    ASSUME NEW u, NEW i, u[i] \in Entries, Whole(u[i]), SameBlock(u, i) = {i}
    PROVE  Fits(u, i)
<1>1. u[i].size \in Nat /\ u[i].off = 0 /\ u[i].split = "unsplit" /\ u[i].size = u[i].blk.size
      BY DEF Entries, Whole
<1>2. PieceOK(u[i]) BY <1>1 DEF PieceOK, IsHead, IsTail
<1>3. \A x \in 0..u[i].blk.size - 1 : Covers(u[i], x) BY <1>1 DEF Covers
<1>4. Headed(u, i) BY <1>1 DEF Headed, IsHead
<1> QED BY <1>2, <1>3, <1>4 DEF Fits

(* Entries of whole new blocks are appended.                                 *)
LEMMA AppendedTiled ==
    ASSUME NEW t, NEW u, NEW blocks, NEW more, Tiled(t), HeapOwned(t, blocks),
           Len(t) \in Nat, Len(u) \in Nat, Len(u) >= Len(t),
           \A i \in 1..Len(t) : u[i] = t[i],
           \A i \in Len(t) + 1..Len(u) :
              /\ u[i] \in Entries
              /\ Whole(u[i])
              /\ \A j \in 1..Len(u) \ {i} : u[j].blk # u[i].blk,
           \A b : b \in more <=> \/ b \in blocks
                                 \/ \E i \in Len(t) + 1..Len(u) :
                                       u[i].src = "heap" /\ CanBeFreed(u[i]) /\ u[i].blk = b
    PROVE  Tiled(u) /\ HeapOwned(u, more)
<1> DEFINE new == {i \in Len(t) + 1..Len(u) : CanBeFreed(u[i])}
<1>1. Unfreed(u) = Unfreed(t) \cup new
  <2>1. \A i : i \in 1..Len(u) <=> i \in 1..Len(t) \/ i \in Len(t) + 1..Len(u) OBVIOUS
  <2> QED BY <2>1 DEF Unfreed
<1>2. \A i \in Unfreed(t) : u[i] = t[i] BY DEF Unfreed
<1>3. Unfreed(u) \subseteq 1..Len(u) BY DEF Unfreed
<1>4. ASSUME NEW i \in Unfreed(t) PROVE SameBlock(u, i) = SameBlock(t, i)
  <2>1. \A j \in new : u[j].blk # u[i].blk
    <3>1. i \in 1..Len(t) /\ i \in 1..Len(u) BY <1>1, <1>3 DEF Unfreed
    <3> QED BY <3>1
  <2> QED BY <1>1, <1>2, <2>1 DEF SameBlock
<1>5. ASSUME NEW i \in new PROVE SameBlock(u, i) = {i} BY <1>1, <1>3 DEF SameBlock
<1>6. ASSUME NEW i \in Unfreed(u) PROVE Fits(u, i)
  <2>1. CASE i \in Unfreed(t)
    <3>1. SameBlock(u, i) = SameBlock(t, i) /\ Fits(t, i) BY <1>4, <2>1 DEF Tiled
    <3>2. \A j \in SameBlock(t, i) : SameForm(u[j], t[j]) BY <1>2 DEF SameBlock, SameForm
    <3> QED BY <1>6, <3>1, <3>2, SameFits
  <2>2. CASE i \in new BY <1>5, <2>2, WholeFits
  <2> QED BY <1>1, <2>1, <2>2
<1>7. HeapOwned(u, more)
  <2>1. \A i \in new : IsHead(u[i]) BY DEF Whole, IsHead
  <2>2. \A b : (\E i \in Unfreed(u) : u[i].src = "heap" /\ IsHead(u[i]) /\ u[i].blk = b)
               <=> \/ \E i \in Unfreed(t) : t[i].src = "heap" /\ IsHead(t[i]) /\ t[i].blk = b
                   \/ \E i \in new : u[i].src = "heap" /\ u[i].blk = b
        BY <1>1, <1>2, <2>1
  <2> QED BY <2>2 DEF HeapOwned
<1> QED BY <1>6, <1>7 DEF Tiled

(* Entries of whole blocks are freed, and those at the end may be popped.    *)
LEMMA FreedTiled ==
    ASSUME NEW t, NEW u, NEW blocks, NEW slots, Tiled(t), HeapOwned(t, blocks),
           Len(t) \in Nat, Len(u) \in Nat, Len(u) <= Len(t),
           \A i \in 1..Len(t) : t[i] \in Entries,
           \A i \in 1..Len(u) : u[i] = IF i \in slots THEN [t[i] EXCEPT !.status = "freed"] ELSE t[i],
           \A i \in Len(u) + 1..Len(t) : i \in slots \/ ~CanBeFreed(t[i]),
           \A i \in slots : i \in Unfreed(t) /\ t[i].split = "unsplit"
    PROVE  /\ Tiled(u)
           /\ HeapOwned(u, blocks \ {t[i].blk : i \in {j \in slots : t[j].src = "heap"}})
<1>1. ASSUME NEW i PROVE i \in Unfreed(u) <=> i \in Unfreed(t) /\ i \notin slots
  <2>1. i \in 1..Len(t) <=> i \in 1..Len(u) \/ i \in Len(u) + 1..Len(t) OBVIOUS
  <2>2. ASSUME i \in 1..Len(u), i \in slots PROVE ~CanBeFreed(u[i])
    <3>1. t[i] \in Entries /\ u[i] = [t[i] EXCEPT !.status = "freed"] BY <2>2
    <3> QED BY <3>1 DEF Entries, CanBeFreed
  <2> QED BY <2>1, <2>2 DEF Unfreed
<1>2. \A i \in Unfreed(u) : u[i] = t[i] BY <1>1 DEF Unfreed
<1>3. ASSUME NEW i \in Unfreed(u), NEW s \in slots, s \in SameBlock(t, i)
      PROVE  t[i].size = 0 /\ ~IsHead(t[i])
  <2>1. i \in Unfreed(t) /\ i # s /\ t[i] \in Entries /\ t[s] \in Entries /\ t[s].blk = t[i].blk
        BY <1>1, <1>3 DEF Unfreed, SameBlock
  <2>2. Beside(t[i], t[s]) /\ PieceOK(t[i]) /\ PieceOK(t[s]) BY <1>3, <2>1 DEF Tiled, Fits
  <2>3. IsHead(t[s]) /\ IsTail(t[s]) BY DEF IsHead, IsTail
  <2>4. t[i].off \in Nat /\ t[i].size \in Nat /\ t[s].off \in Nat /\ t[s].size \in Nat
        BY <2>1 DEF Entries
  <2>5. t[s].off = 0 /\ t[s].size = t[i].blk.size BY <2>1, <2>2, <2>3, <2>4 DEF PieceOK
  <2>6. ~IsHead(t[i]) /\ t[i].split # "unsplit" BY <2>2, <2>3 DEF Beside, IsTail
  <2>7. t[i].off < t[i].blk.size BY <2>2, <2>6 DEF PieceOK
  <2> QED BY <2>2, <2>4, <2>5, <2>6, <2>7 DEF Beside
<1>4. ASSUME NEW i \in Unfreed(u) PROVE Fits(u, i)
  <2>1. i \in Unfreed(t) /\ u[i] = t[i] /\ Fits(t, i) BY <1>1, <1>2 DEF Tiled
  <2>2. SameBlock(u, i) = SameBlock(t, i) \ slots BY <1>1, <1>2, <2>1 DEF SameBlock
  <2>3. \A j \in SameBlock(u, i) : u[j] = t[j] BY <1>2 DEF SameBlock
  <2>4. CASE SameBlock(t, i) \cap slots = {}
    <3>1. SameBlock(u, i) = SameBlock(t, i) BY <2>2, <2>4
    <3>2. \A j \in SameBlock(t, i) : SameForm(u[j], t[j]) BY <2>3, <3>1 DEF SameForm
    <3> QED BY <2>1, <3>1, <3>2, SameFits
  <2>5. CASE SameBlock(t, i) \cap slots # {}
    <3>1. PICK s \in slots : s \in SameBlock(t, i) BY <2>5
    <3>2. ASSUME NEW j \in SameBlock(u, i) PROVE ~IsHead(u[j])
      <4>1. j \in Unfreed(u) /\ s \in SameBlock(t, j) BY <2>1, <2>3, <3>1 DEF SameBlock
      <4> QED BY <1>3, <2>3, <4>1
    <3>3. ~Headed(u, i) BY <3>2 DEF Headed
    <3>4. u[i].size = 0 BY <1>3, <2>1, <3>1
    <3>5. \A j \in SameBlock(u, i) \ {i} : Beside(u[i], u[j]) BY <2>1, <2>2, <2>3 DEF Fits
    <3>6. PieceOK(u[i]) BY <2>1 DEF Fits
    <3> QED BY <3>3, <3>4, <3>5, <3>6 DEF Fits
  <2> QED BY <2>4, <2>5
<1>5. ASSUME NEW b
      PROVE  /\ b \in blocks
             /\ b \notin {t[i].blk : i \in {j \in slots : t[j].src = "heap"}}
             <=> \E i \in Unfreed(u) : u[i].src = "heap" /\ IsHead(u[i]) /\ u[i].blk = b
  <2>1. ASSUME b \in blocks, b \notin {t[i].blk : i \in {j \in slots : t[j].src = "heap"}}
        PROVE  \E i \in Unfreed(u) : u[i].src = "heap" /\ IsHead(u[i]) /\ u[i].blk = b
    <3>1. PICK i \in Unfreed(t) : t[i].src = "heap" /\ IsHead(t[i]) /\ t[i].blk = b
          BY <2>1 DEF HeapOwned
    <3>2. i \in Unfreed(u) BY <1>1, <2>1, <3>1
    <3> QED BY <1>2, <3>1, <3>2
  <2>2. ASSUME NEW i \in Unfreed(u), u[i].src = "heap", IsHead(u[i]), u[i].blk = b
        PROVE  b \in blocks /\ b \notin {t[j].blk : j \in {k \in slots : t[k].src = "heap"}}
    <3>1. i \in Unfreed(t) /\ t[i].src = "heap" /\ IsHead(t[i]) /\ t[i].blk = b
          BY <1>1, <1>2, <2>2
    <3>2. b \in blocks BY <3>1 DEF HeapOwned
    <3>3. ASSUME NEW j \in slots, t[j].blk = b PROVE FALSE
      <4>1. j \in SameBlock(t, i) BY <3>1, <3>3 DEF SameBlock
      <4> QED BY <1>3, <2>2, <3>1, <4>1
    <3> QED BY <3>2, <3>3
  <2> QED BY <2>1, <2>2
<1> QED BY <1>4, <1>5 DEF Tiled, HeapOwned

(* An entry is split.                                                        *)
LEMMA SplitTiled ==
    ASSUME NEW t, NEW u, NEW blocks, NEW s, NEW offset \in Nat,
           Tiled(t), HeapOwned(t, blocks), Len(t) \in Nat,
           s \in Unfreed(t), \A i \in 1..Len(t) : t[i] \in Entries,
           offset < t[s].size, Len(u) = Len(t) + 1,
           \A i \in 1..Len(t) : u[i] = IF i = s THEN HeadPiece(t[s], offset) ELSE t[i],
           u[Len(t) + 1] = TailPiece(t[s], offset)
    PROVE  Tiled(u) /\ HeapOwned(u, blocks)
<1> DEFINE e == t[s]
           h == HeadPiece(e, offset)
           p == TailPiece(e, offset)
           n == Len(t) + 1
<1>1. s \in 1..Len(t) /\ CanBeFreed(e) /\ e \in Entries /\ PieceOK(e) BY DEF Unfreed, Tiled, Fits
<1>2. /\ PieceOK(h) /\ PieceOK(p) /\ Beside(h, p) /\ Beside(p, h)
      /\ h.blk = e.blk /\ p.blk = e.blk /\ h.src = e.src /\ p.src = e.src
      /\ CanBeFreed(h) /\ CanBeFreed(p)
      /\ IsHead(h) <=> IsHead(e)
      /\ ~IsHead(p)
      /\ \A x \in Nat : Covers(e, x) => Covers(h, x) \/ Covers(p, x)
      /\ \A d \in Entries : Beside(d, e) => /\ Beside(d, h) /\ Beside(h, d)
                                            /\ Beside(d, p) /\ Beside(p, d)
      BY <1>1, SplitPieces
<1>3. u[s] = h /\ u[n] = p BY <1>1
<1>4. n \notin 1..Len(t) /\ 1..Len(u) = 1..Len(t) \cup {n} OBVIOUS
<1> HIDE DEF h, p, n
<1>5. Unfreed(u) = Unfreed(t) \cup {n} BY <1>1, <1>2, <1>3, <1>4 DEF Unfreed, h
<1>6. \A i \in Unfreed(t) : i # s => u[i] = t[i] BY DEF Unfreed
<1>7. s # n /\ n \notin Unfreed(t) BY <1>1, <1>4 DEF Unfreed
<1>8. \A i \in Unfreed(t) : u[i].blk = t[i].blk /\ u[i].src = t[i].src BY <1>2, <1>3, <1>6
<1>9. ASSUME NEW i \in Unfreed(t), t[i].blk # e.blk PROVE SameBlock(u, i) = SameBlock(t, i)
  BY <1>2, <1>3, <1>5, <1>8, <1>9 DEF SameBlock
<1>10. ASSUME NEW i \in Unfreed(u), u[i].blk = e.blk PROVE SameBlock(u, i) = SameBlock(t, s) \cup {n}
  BY <1>2, <1>3, <1>5, <1>8, <1>10 DEF SameBlock
<1>11. ASSUME NEW i \in SameBlock(t, s), i # s
       PROVE  /\ u[i] = t[i] /\ PieceOK(u[i])
              /\ Beside(u[i], h) /\ Beside(u[i], p) /\ Beside(h, u[i]) /\ Beside(p, u[i])
  <2>1. i \in Unfreed(t) /\ i \in 1..Len(t) /\ t[i].blk = e.blk BY DEF SameBlock, Unfreed
  <2>2. s \in SameBlock(t, i) \ {i} BY <1>11, <2>1 DEF SameBlock
  <2>3. Beside(t[i], e) /\ PieceOK(t[i]) BY <2>1, <2>2 DEF Tiled, Fits
  <2> QED BY <1>2, <1>6, <1>11, <2>1, <2>3
<1>a. Headed(t, s)
  <2>1. e.size > 0 BY <1>1 DEF Entries
  <2> QED BY <2>1 DEF Tiled, Fits
<1>12. ASSUME NEW i \in Unfreed(u) PROVE Fits(u, i)
  <2>1. CASE u[i].blk # e.blk
    <3>1. i \in Unfreed(t) /\ i # s /\ u[i] = t[i] BY <1>2, <1>3, <1>5, <1>6, <2>1
    <3>2. SameBlock(u, i) = SameBlock(t, i) /\ Fits(t, i) BY <1>9, <2>1, <3>1 DEF Tiled
    <3>3. \A j \in SameBlock(t, i) : SameForm(u[j], t[j])
          BY <1>6, <2>1, <3>1 DEF SameBlock, SameForm
    <3> QED BY <1>12, <3>2, <3>3, SameFits
  <2>2. CASE u[i].blk = e.blk
    <3>1. SameBlock(u, i) = SameBlock(t, s) \cup {n} BY <1>10, <2>2
    <3>2. i \in SameBlock(t, s) \/ i = n BY <1>5, <1>8, <2>2 DEF SameBlock
    <3>3. PieceOK(u[i]) BY <1>2, <1>3, <1>11, <3>2
    <3>4. ASSUME NEW j \in SameBlock(u, i) \ {i} PROVE Beside(u[i], u[j])
      <4>1. CASE i \in {s, n} /\ j \in {s, n} BY <1>2, <1>3, <3>4, <4>1
      <4>2. CASE i \in {s, n} /\ j \notin {s, n} BY <1>3, <1>11, <3>1, <4>2
      <4>3. CASE i \notin {s, n} /\ j \in {s, n} BY <1>3, <1>11, <3>2, <4>3
      <4>4. CASE i \notin {s, n} /\ j \notin {s, n}
        <5>1. i \in SameBlock(t, s) /\ j \in SameBlock(t, s) BY <3>1, <3>2, <4>4
        <5>2. i \in Unfreed(t) /\ j \in SameBlock(t, i) \ {i} BY <3>4, <5>1 DEF SameBlock
        <5> QED BY <1>11, <4>4, <5>1, <5>2 DEF Tiled, Fits
      <4> QED BY <4>1, <4>2, <4>3, <4>4
    <3>5. ASSUME NEW x \in 0..u[i].blk.size - 1 PROVE \E j \in SameBlock(u, i) : Covers(u[j], x)
      <4>1. PICK j \in SameBlock(t, s) : Covers(t[j], x) BY <1>a, <2>2 DEF Tiled, Fits
      <4>2. CASE j = s
        <5>1. x \in Nat /\ s \in SameBlock(u, i) /\ n \in SameBlock(u, i) BY <3>1, <4>1, <4>2
        <5> QED BY <1>2, <1>3, <4>1, <4>2, <5>1
      <4>3. CASE j # s BY <1>11, <3>1, <4>1, <4>3
      <4> QED BY <4>2, <4>3
    <3>6. Headed(u, i)
      <4>1. PICK j \in SameBlock(t, s) : IsHead(t[j]) BY <1>a DEF Headed
      <4>2. IsHead(u[j]) BY <1>2, <1>3, <1>11, <4>1
      <4> QED BY <3>1, <4>2 DEF Headed
    <3> QED BY <3>3, <3>4, <3>5, <3>6 DEF Fits
  <2> QED BY <2>1, <2>2
<1>13. HeapOwned(u, blocks)
  <2>1. \A i \in Unfreed(t) : IsHead(u[i]) <=> IsHead(t[i]) BY <1>2, <1>3, <1>6
  <2>2. \A b : (\E i \in Unfreed(u) : u[i].src = "heap" /\ IsHead(u[i]) /\ u[i].blk = b)
               <=> \E i \in Unfreed(t) : t[i].src = "heap" /\ IsHead(t[i]) /\ t[i].blk = b
        BY <1>2, <1>3, <1>5, <1>8, <2>1
  <2> QED BY <2>2 DEF HeapOwned
<1> QED BY <1>12, <1>13 DEF Tiled

(* Two pieces are merged.                                                    *)
LEMMA MergedTiled ==
    ASSUME NEW t, NEW u, NEW blocks, NEW r, NEW s,
           Tiled(t), HeapOwned(t, blocks),
           r \in Unfreed(t), s \in Unfreed(t), r # s, t[r].blk = t[s].blk, Adjacent(t[r], t[s]),
           t[r].split # "unsplit", t[s].split # "unsplit", t[s].split # "split_first",
           \A i \in 1..Len(t) : t[i] \in Entries,
           Len(u) = Len(t),
           \A i \in 1..Len(t) : u[i] = IF i = r THEN Grown(t[r], t[s])
                                       ELSE IF i = s THEN [t[i] EXCEPT !.status = "freed"]
                                       ELSE t[i]
    PROVE  Tiled(u) /\ HeapOwned(u, blocks)
<1> DEFINE d == t[r]
           e == t[s]
           g == Grown(d, e)
<1>1. /\ r \in 1..Len(t) /\ CanBeFreed(d) /\ d \in Entries /\ PieceOK(d)
      /\ s \in 1..Len(t) /\ CanBeFreed(e) /\ e \in Entries /\ PieceOK(e)
      BY DEF Unfreed, Tiled, Fits
<1>2. s \in SameBlock(t, r) \ {r} BY DEF SameBlock
<1>3. Beside(d, e) BY <1>2 DEF Tiled, Fits
<1>4. /\ PieceOK(g) /\ g.blk = d.blk /\ g.src = d.src /\ CanBeFreed(g) /\ g.size = d.size + e.size
      /\ IsHead(g) <=> IsHead(d)
      /\ ~IsHead(e)
      /\ \A x \in Nat : Covers(d, x) \/ Covers(e, x) => Covers(g, x)
      /\ \A c \in Entries : Beside(c, d) /\ Beside(c, e) => Beside(c, g) /\ Beside(g, c)
      BY <1>1, <1>3, MergedPieces
<1>5. u[r] = g /\ ~CanBeFreed(u[s])
  <2>1. u[s] = [e EXCEPT !.status = "freed"] BY <1>1
  <2> QED BY <1>1, <2>1 DEF Entries, CanBeFreed
<1> HIDE DEF g
<1>6. Unfreed(u) = Unfreed(t) \ {s} BY <1>4, <1>5 DEF Unfreed, g
<1>7. \A i \in Unfreed(u) : i # r => u[i] = t[i] BY <1>6 DEF Unfreed
<1>8. \A i \in Unfreed(u) : u[i].blk = t[i].blk /\ u[i].src = t[i].src BY <1>4, <1>5, <1>7
<1>9. ASSUME NEW i \in Unfreed(u) PROVE SameBlock(u, i) = SameBlock(t, i) \ {s}
  BY <1>6, <1>8 DEF SameBlock
<1>10. ASSUME NEW i \in Unfreed(u), i # r, t[i].blk = d.blk
       PROVE  Beside(u[i], g) /\ Beside(g, u[i])
  <2>1. i \in Unfreed(t) /\ i # s /\ i \in 1..Len(t) /\ u[i] = t[i]
        BY <1>6, <1>7, <1>10 DEF Unfreed
  <2>2. r \in SameBlock(t, i) \ {i} /\ s \in SameBlock(t, i) \ {i} BY <1>10, <2>1 DEF SameBlock
  <2>3. Beside(t[i], d) /\ Beside(t[i], e) BY <2>1, <2>2 DEF Tiled, Fits
  <2> QED BY <1>4, <1>10, <2>1, <2>3
<1>11. ASSUME NEW i \in Unfreed(u) PROVE IsHead(u[i]) <=> IsHead(t[i])
  BY <1>4, <1>5, <1>7
<1>12. ASSUME NEW i \in Unfreed(u) PROVE Headed(u, i) <=> Headed(t, i)
  <2>1. \A j \in SameBlock(u, i) : j \in Unfreed(u) BY DEF SameBlock
  <2> QED BY <1>4, <1>9, <1>11, <2>1 DEF Headed
<1>13. ASSUME NEW i \in Unfreed(u) PROVE Fits(u, i)
  <2>1. i \in Unfreed(t) /\ i # s /\ u[i].blk = t[i].blk /\ Fits(t, i) BY <1>6, <1>8 DEF Tiled
  <2>2. PieceOK(u[i]) BY <1>4, <1>5, <1>7, <2>1 DEF Fits
  <2>3. ASSUME NEW j \in SameBlock(u, i) \ {i} PROVE Beside(u[i], u[j])
    <3>1. j \in Unfreed(u) /\ j \in SameBlock(t, i) \ {i} /\ t[j].blk = t[i].blk
          BY <1>9, <2>3 DEF SameBlock
    <3>2. CASE i = r BY <1>5, <1>10, <3>1, <3>2
    <3>3. CASE j = r BY <1>5, <1>10, <3>1, <3>3
    <3>4. CASE i # r /\ j # r BY <1>7, <2>1, <3>1, <3>4 DEF Fits
    <3> QED BY <3>2, <3>3, <3>4
  <2>4. ASSUME Headed(u, i), NEW x \in 0..u[i].blk.size - 1
        PROVE  \E j \in SameBlock(u, i) : Covers(u[j], x)
    <3>1. PICK j \in SameBlock(t, i) : Covers(t[j], x) BY <1>12, <2>1, <2>4 DEF Fits
    <3>2. CASE j \in {r, s}
      <4>1. r \in SameBlock(u, i) BY <1>9, <3>2 DEF SameBlock
      <4>2. x \in Nat OBVIOUS
      <4> QED BY <1>4, <1>5, <3>1, <3>2, <4>1, <4>2
    <3>3. CASE j \notin {r, s}
      <4>1. j \in SameBlock(u, i) BY <1>9, <3>3
      <4>2. u[j] = t[j] BY <1>7, <3>3, <4>1 DEF SameBlock
      <4> QED BY <3>1, <4>1, <4>2
    <3> QED BY <3>2, <3>3
  <2>5. ASSUME u[i].size > 0 PROVE Headed(t, i)
    <3>1. CASE i # r BY <1>7, <2>1, <2>5, <3>1 DEF Fits
    <3>2. CASE i = r
      <4>1. d.size > 0 \/ e.size > 0 BY <1>1, <1>4, <1>5, <2>5, <3>2 DEF Entries
      <4>2. Headed(t, r) \/ Headed(t, s) BY <4>1 DEF Tiled, Fits
      <4>3. SameBlock(t, r) = SameBlock(t, s) BY DEF SameBlock
      <4> QED BY <3>2, <4>2, <4>3 DEF Headed
    <3> QED BY <3>1, <3>2
  <2> QED BY <1>12, <2>2, <2>3, <2>4, <2>5 DEF Fits
<1>14. HeapOwned(u, blocks)
  <2>1. ASSUME NEW b
        PROVE  (\E i \in Unfreed(u) : u[i].src = "heap" /\ IsHead(u[i]) /\ u[i].blk = b)
               <=> \E i \in Unfreed(t) : t[i].src = "heap" /\ IsHead(t[i]) /\ t[i].blk = b
    BY <1>4, <1>6, <1>8, <1>11
  <2> QED BY <2>1 DEF HeapOwned
<1> QED BY <1>13, <1>14 DEF Tiled

(* A block that has a beginning has one, at its start.                       *)
LEMMA OneHead ==
    ASSUME NEW t, Tiled(t), NEW i \in Unfreed(t), Headed(t, i), \A j \in 1..Len(t) : t[j] \in Entries
    PROVE  \E j \in SameBlock(t, i) :
              /\ t[j].split \in {"unsplit", "split_first"}
              /\ t[j].off = 0
              /\ t[j].split = "unsplit" => t[j].size = t[i].blk.size
              /\ \A k \in SameBlock(t, i) \ {j} : t[k].split \in {"split_middle", "split_last"}
<1>1. ASSUME NEW j \in SameBlock(t, i)
      PROVE  /\ j \in Unfreed(t) /\ t[j].blk = t[i].blk /\ PieceOK(t[j])
             /\ t[j].off \in Nat /\ t[j].size \in Nat
             /\ t[j].split \in Splits
  BY DEF SameBlock, Unfreed, Tiled, Fits, Entries
<1>2. PICK j \in SameBlock(t, i) : IsHead(t[j]) BY DEF Headed
<1>3. t[j].off = 0 BY <1>1, <1>2 DEF PieceOK
<1>4. t[j].split = "unsplit" => t[j].size = t[i].blk.size BY <1>1, <1>3 DEF PieceOK, IsTail
<1>5. ASSUME NEW k \in SameBlock(t, i) \ {j} PROVE t[k].split \in {"split_middle", "split_last"}
  <2>1. j \in Unfreed(t) /\ k \in SameBlock(t, j) \ {j} BY <1>1 DEF SameBlock
  <2>2. Beside(t[j], t[k]) BY <2>1 DEF Tiled, Fits
  <2>3. ~IsHead(t[k]) BY <1>2, <2>2 DEF Beside
  <2> QED BY <1>1, <2>3 DEF Splits, IsHead
<1> QED BY <1>2, <1>3, <1>4, <1>5 DEF IsHead

(* Heap blocks are freed well, and a process that has ended does nothing.    *)
FreedWell == FreedExactlyOnce /\ (ended => calling = Idle)

(* The inductive invariant of pieces and heap blocks.                        *)
TiledInv ==
    InOrder =>
    /\ Tiled(table)
    /\ HeapOwned(table, heapLive)
    /\ FreedWell

(* What is freed by its beginning is freed well.                             *)
LEMMA FreesOwned ==
    ASSUME TypeOK, Tiled(table), HeapOwned(table, heapLive), NEW slots, FreeNative(slots),
           \A i \in slots : i \in Unfreed(table) /\ table[i].src = "heap" /\ IsHead(table[i])
    PROVE  fault' = "none" /\ heapLive' = heapLive \ {table[i].blk : i \in slots}
<1>1. \A i \in slots : table[i].off = 0 BY DEF Tiled, Fits, PieceOK
<1>2. \A i \in slots : FreeIsValid(table[i]) BY <1>1 DEF FreeIsValid, HeapOwned
<1>3. ASSUME NEW i \in slots, NEW j \in slots \ {i} PROVE table[i].blk # table[j].blk
  <2>1. SUFFICES ASSUME table[i].blk = table[j].blk PROVE FALSE
    OBVIOUS
  <2>2. j \in SameBlock(table, i) \ {i} BY <2>1 DEF SameBlock
  <2>3. Beside(table[i], table[j]) BY <2>2 DEF Tiled, Fits
  <2> QED BY <2>3 DEF Beside
<1> QED BY <1>2, <1>3 DEF FreeNative

(* A block that the table gets now is none that it has had.                  *)
LEMMA FreshBlock ==
    ASSUME TypeOK, GenInv, NEW b, b.slot > Len(table), b.born = epoch, NEW j \in 1..Len(table)
    PROVE  table[j].blk # b
<1>1. EntryGeneration(j, table[j], Len(table), epoch) BY DEF GenInv
<1>2. epoch \in Nat BY Types
<1>3. SUFFICES ASSUME table[j].blk = b PROVE FALSE
  OBVIOUS
<1>4. b.born < epoch BY <1>1, <1>3 DEF EntryGeneration
<1> QED BY <1>2, <1>4

(* A new entry is whole.                                                     *)
LEMMA NewEntryWhole ==
    ASSUME NEW src, NEW status, NEW slot, NEW gen, NEW size
    PROVE  LET e == NewEntry(src, status, slot, gen, size)
           IN  Whole(e) /\ e.blk.slot = slot /\ e.blk.born = epoch /\ e.src = src /\ e.status = status
BY DEF NewEntry, Whole

(* An entry with memory of its own is appended.                              *)
LEMMA PushedTiled ==
    ASSUME TypeOK, GenInv, Tiled(table), HeapOwned(table, heapLive),
           NEW e \in Entries, table' = Append(table, e),
           Whole(e), e.blk.slot = Len(table) + 1, e.blk.born = epoch,
           NEW more,
           \A b : b \in more <=> b \in heapLive \/ (e.src = "heap" /\ CanBeFreed(e) /\ e.blk = b)
    PROVE  Tiled(table') /\ HeapOwned(table', more)
<1> DEFINE n == Len(table)
           u == table'
<1>1. n \in Nat /\ Len(u) = n + 1 /\ (\A i \in 1..n : u[i] = table[i]) /\ u[n + 1] = e
      BY Types, AppendTable
<1>2. \A i \in n + 1..Len(u) : i = n + 1 BY <1>1
<1>3. e.blk.slot > Len(table) BY <1>1
<1>4. \A j \in 1..n : u[j].blk # e.blk BY <1>1, <1>3, FreshBlock
<1>5. \A j \in 1..Len(u) \ {n + 1} : j \in 1..n BY <1>1
<1> HIDE DEF u
<1>6. \A i \in Len(table) + 1..Len(u) :
         /\ u[i] \in Entries
         /\ Whole(u[i])
         /\ \A j \in 1..Len(u) \ {i} : u[j].blk # u[i].blk
      BY <1>1, <1>2, <1>4, <1>5
<1>7. n + 1 \in n + 1..Len(u) BY <1>1
<1>8. \A b : b \in more <=> \/ b \in heapLive
                            \/ \E i \in Len(table) + 1..Len(u) :
                                  u[i].src = "heap" /\ CanBeFreed(u[i]) /\ u[i].blk = b
      BY <1>1, <1>2, <1>7
<1>9. Len(table) \in Nat /\ Len(u) \in Nat /\ Len(u) >= Len(table) BY <1>1
<1>10. Tiled(u) /\ HeapOwned(u, more) BY <1>1, <1>6, <1>8, <1>9, AppendedTiled
<1> QED BY <1>10 DEF u

(* A heap block is allocated, or a local variable moved to one.              *)
LEMMA PushHeapTiled ==
    ASSUME TypeOK, GenInv, Tiled(table), HeapOwned(table, heapLive), NEW size \in Nat, PushHeap(size)
    PROVE  Tiled(table') /\ HeapOwned(table', heapLive')
<1> DEFINE e == NewEntry("heap", "allocated", Len(table) + 1, curGen, size)
<1>0. Len(table) \in Nat /\ curGen \in 0..Generations - 1 /\ epoch \in Nat BY Types
<1>1. Len(table) + 1 \in Nat /\ curGen \in 0..Generations - 1 /\ epoch \in Nat BY <1>0
<1>2. e \in Entries BY <1>1, NewEntryType DEF Sources, Statuses
<1>3. /\ Whole(e) /\ e.blk.slot = Len(table) + 1 /\ e.blk.born = epoch
      /\ e.src = "heap" /\ e.status = "allocated"
      BY NewEntryWhole
<1>4. table' = Append(table, e) /\ heapLive' = heapLive \cup {e.blk} BY DEF PushHeap, Push
<1> HIDE DEF e
<1> DEFINE more == heapLive'
<1>5. \A b : b \in more <=> b \in heapLive \/ (e.src = "heap" /\ CanBeFreed(e) /\ e.blk = b)
      BY <1>3, <1>4 DEF CanBeFreed
<1> HIDE DEF more
<1>6. Tiled(table') /\ HeapOwned(table', more) BY <1>2, <1>3, <1>4, <1>5, PushedTiled
<1> QED BY <1>6 DEF more

(* The other entries that steps append are no heap blocks.                   *)
LEMMA PushOtherTiled ==
    ASSUME TypeOK, GenInv, Tiled(table), HeapOwned(table, heapLive),
           NEW src \in Sources \ {"heap"}, NEW status \in Statuses, NEW gen \in 0..Generations - 1,
           NEW size \in Nat,
           table' = Append(table, NewEntry(src, status, Len(table) + 1, gen, size))
    PROVE  Tiled(table') /\ HeapOwned(table', heapLive)
<1> DEFINE e == NewEntry(src, status, Len(table) + 1, gen, size)
<1>0. Len(table) \in Nat /\ epoch \in Nat BY Types
<1>1. Len(table) + 1 \in Nat /\ epoch \in Nat BY <1>0
<1>2. e \in Entries BY <1>1, NewEntryType
<1>3. /\ Whole(e) /\ e.blk.slot = Len(table) + 1 /\ e.blk.born = epoch
      /\ e.src # "heap"
      BY NewEntryWhole
<1>4. table' = Append(table, e) OBVIOUS
<1> HIDE DEF e
<1>5. \A b : b \in heapLive <=> b \in heapLive \/ (e.src = "heap" /\ CanBeFreed(e) /\ e.blk = b)
      BY <1>3
<1> QED BY <1>2, <1>3, <1>4, <1>5, PushedTiled

(* The locals of a frame are appended, each with a block of its own.         *)
LEMMA SetUpTiled ==
    ASSUME TypeOK, TypeOK', GenInv, Tiled(table), HeapOwned(table, heapLive), SetupLocals
    PROVE  Tiled(table') /\ HeapOwned(table', heapLive)
<1> DEFINE n == Len(table)
           u == table'
<1>1. /\ n \in Nat /\ calling.count \in Nat /\ Len(u) = n + calling.count
      /\ \A i \in 1..n : u[i] = table[i]
      /\ \A i \in n + 1..Len(u) :
            u[i] = NewEntry("local", "allocated", i, curGen % AddrGens, LocalSize)
      BY Types, SetUpTable
<1>2. Len(u) \in Nat /\ Len(u) >= n BY <1>1
<1>3. \A i \in 1..Len(u) : u[i] \in Entries
  <2>1. u \in Seq(Entries) BY DEF TypeOK
  <2> QED BY <2>1
<1> HIDE DEF u
<1>4. ASSUME NEW i \in n + 1..Len(u)
      PROVE  /\ u[i] \in Entries /\ Whole(u[i]) /\ u[i].src = "local"
             /\ u[i].blk.slot = i /\ u[i].blk.born = epoch
             /\ i \in 1..Len(u) /\ i > Len(table)
  <2>1. i \in 1..Len(u) /\ i > Len(table) BY <1>1
  <2> QED BY <1>1, <1>3, <2>1, NewEntryWhole
<1>5. ASSUME NEW i \in n + 1..Len(u), NEW j \in 1..Len(u) \ {i} PROVE u[j].blk # u[i].blk
  <2>1. CASE j \in 1..n
    <3>1. u[i].blk.slot > Len(table) /\ u[i].blk.born = epoch BY <1>4
    <3>2. table[j].blk # u[i].blk BY <2>1, <3>1, FreshBlock
    <3> QED BY <1>1, <2>1, <3>2
  <2>2. CASE j \notin 1..n
    <3>1. j \in n + 1..Len(u) BY <1>1, <2>2
    <3> QED BY <1>4, <3>1
  <2> QED BY <2>1, <2>2
<1>6. \A i \in Len(table) + 1..Len(u) :
         /\ u[i] \in Entries
         /\ Whole(u[i])
         /\ \A j \in 1..Len(u) \ {i} : u[j].blk # u[i].blk
      BY <1>4, <1>5
<1>7. \A b : b \in heapLive <=> \/ b \in heapLive
                                \/ \E i \in Len(table) + 1..Len(u) :
                                      u[i].src = "heap" /\ CanBeFreed(u[i]) /\ u[i].blk = b
      BY <1>4
<1>8. Tiled(u) /\ HeapOwned(u, heapLive) BY <1>1, <1>2, <1>6, <1>7, AppendedTiled
<1> QED BY <1>8 DEF u

(* Locals and handles are freed whole, with the frames and fibers.           *)
LEMMA TrimTiled ==
    ASSUME TypeOK, Tiled(table), HeapOwned(table, heapLive),
           NEW slots, RemoveFreed(MarkFreed(slots)),
           \A i \in slots : /\ i \in Unfreed(table)
                            /\ table[i].split = "unsplit"
                            /\ table[i].src # "heap"
    PROVE  Tiled(table') /\ HeapOwned(table', heapLive)
<1> DEFINE u == table'
<1>1. Len(table) \in Nat /\ \A i \in 1..Len(table) : table[i] \in Entries BY Types
<1>2. /\ Len(u) \in Nat /\ Len(u) <= Len(table)
      /\ \A i \in 1..Len(u) :
            u[i] = IF i \in slots THEN [table[i] EXCEPT !.status = "freed"] ELSE table[i]
      /\ \A i \in Len(u) + 1..Len(table) : i \in slots \/ ~CanBeFreed(table[i])
      BY TrimShape
<1> HIDE DEF u
<1>3. /\ Tiled(u)
      /\ HeapOwned(u, heapLive \ {table[i].blk : i \in {j \in slots : table[j].src = "heap"}})
      BY <1>1, <1>2, FreedTiled
<1>4. {table[i].blk : i \in {j \in slots : table[j].src = "heap"}} = {} OBVIOUS
<1>5. heapLive \ {} = heapLive OBVIOUS
<1> QED BY <1>3, <1>4, <1>5 DEF u

(* Entries are freed, with nothing trimmed.                                  *)
LEMMA MarkTiled ==
    ASSUME TypeOK, Tiled(table), HeapOwned(table, heapLive),
           NEW slots, table' = MarkFreed(slots),
           \A i \in slots : /\ i \in Unfreed(table)
                            /\ table[i].split = "unsplit"
    PROVE  /\ Tiled(table')
           /\ HeapOwned(table', heapLive \ {table[i].blk : i \in {j \in slots : table[j].src = "heap"}})
<1> DEFINE u == table'
<1>1. Len(table) \in Nat /\ table \in Seq(Entries) /\ \A i \in 1..Len(table) : table[i] \in Entries
      BY Types
<1>2. /\ Len(u) = Len(table)
      /\ \A i \in 1..Len(u) :
            u[i] = IF i \in slots THEN [table[i] EXCEPT !.status = "freed"] ELSE table[i]
      BY <1>1, MarkFreedShape
<1> HIDE DEF u
<1>3. /\ Len(u) \in Nat /\ Len(u) <= Len(table)
      /\ \A i \in Len(u) + 1..Len(table) : i \in slots \/ ~CanBeFreed(table[i])
  <2>1. Len(u) + 1..Len(table) = {} BY <1>1, <1>2
  <2> QED BY <1>1, <1>2, <2>1
<1>4. /\ Tiled(u)
      /\ HeapOwned(u, heapLive \ {table[i].blk : i \in {j \in slots : table[j].src = "heap"}})
      BY <1>1, <1>2, <1>3, FreedTiled
<1> QED BY <1>4 DEF u

(* free frees a whole block.                                                 *)
LEMMA HeapFreeTiled ==
    ASSUME TypeOK, Tiled(table), HeapOwned(table, heapLive), NEW a \in Addresses, HeapFree(a)
    PROVE  Tiled(table') /\ HeapOwned(table', heapLive') /\ fault' = "none"
<1>1. a.slot \in Unfreed(table) BY ResolvesToEntry DEF HeapFree, Unfreed
<1>2. /\ table[a.slot].src = "heap" /\ table[a.slot].split = "unsplit"
      /\ table' = MarkFreed({a.slot}) /\ FreeNative({a.slot})
      BY DEF HeapFree
<1>3. fault' = "none" /\ heapLive' = heapLive \ {table[i].blk : i \in {a.slot}}
      BY <1>1, <1>2, FreesOwned DEF IsHead
<1>4. {j \in {a.slot} : table[j].src = "heap"} = {a.slot} BY <1>2
<1>5. /\ Tiled(table')
      /\ HeapOwned(table', heapLive \ {table[i].blk : i \in {j \in {a.slot} : table[j].src = "heap"}})
      BY <1>1, <1>2, MarkTiled
<1> QED BY <1>3, <1>4, <1>5

(* A collection frees whole blocks.                                          *)
LEMMA CollectTiled ==
    ASSUME TypeOK, InPlace(table, fibers), Tiled(table), HeapOwned(table, heapLive),
           NEW unreachable \in SUBSET (1..Len(table)), Collect(unreachable)
    PROVE  Tiled(table') /\ HeapOwned(table', heapLive') /\ fault' = "none"
<1> DEFINE blocks == {i \in unreachable : table[i].src = "heap"}
<1>1. table' = MarkFreed(unreachable) /\ FreeNative(blocks) BY DEF Collect
<1>2. \A i \in unreachable : /\ i \in Unfreed(table)
                             /\ table[i].split = "unsplit"
      BY DEF Collect, Unfreed, InPlace, Untouched
<1>3. fault' = "none" /\ heapLive' = heapLive \ {table[i].blk : i \in blocks}
      BY <1>1, <1>2, FreesOwned DEF IsHead
<1>4. /\ Tiled(table')
      /\ HeapOwned(table', heapLive \ {table[i].blk : i \in blocks})
      BY <1>1, <1>2, MarkTiled
<1> QED BY <1>3, <1>4

(* The cleanup frees every block the process owns.                           *)
LEMMA CleanupTiled ==
    ASSUME TypeOK, Tiled(table), HeapOwned(table, heapLive), Cleanup
    PROVE  Tiled(table') /\ HeapOwned(table', heapLive') /\ fault' = "none" /\ heapLive' = {}
<1>1. table' = <<>> /\ FreeNative(Leaked) BY DEF Cleanup
<1>2. fault' = "none" /\ heapLive' = heapLive \ {table[i].blk : i \in Leaked}
      BY <1>1, FreesOwned DEF Leaked, Unfreed, IsHead
<1>3. ASSUME NEW b \in heapLive PROVE b \in {table[i].blk : i \in Leaked}
  <2>1. PICK i \in Unfreed(table) : table[i].src = "heap" /\ IsHead(table[i]) /\ table[i].blk = b
        BY DEF HeapOwned
  <2>2. i \in Leaked BY <2>1 DEF Unfreed, Leaked, IsHead
  <2> QED BY <2>1, <2>2
<1>4. heapLive' = {} BY <1>2, <1>3
<1>5. Unfreed(<<>>) = {}
  <2>1. 1..Len(<<>>) = {} OBVIOUS
  <2> QED BY <2>1 DEF Unfreed
<1>6. Tiled(<<>>) /\ HeapOwned(<<>>, {}) BY <1>5 DEF Tiled, HeapOwned
<1> QED BY <1>1, <1>2, <1>4, <1>6

(* The entries of the globals are whole blocks.                              *)
LEMMA InitTiled == Init => TiledInv
<1> SUFFICES ASSUME Init
             PROVE  /\ Tiled(table) /\ HeapOwned(table, heapLive)
                    /\ FreedWell
    BY DEF TiledInv
<1>1. /\ epoch = 0 /\ fault = "none" /\ ended = FALSE /\ heapLive = {}
      /\ table = [j \in 1..Len(Globals) |-> GlobalEntry(j)]
      BY DEF Init
<1>2. Len(Globals) \in Nat BY MemoryAssumption DEF MemoryAssumption
<1>3. Len(table) = Len(Globals) BY <1>1, <1>2
<1>4. ASSUME NEW i \in 1..Len(table)
      PROVE  /\ Whole(table[i]) /\ table[i].blk.slot = i /\ table[i].src = "static"
             /\ table[i] \in Entries
  <2>1. table[i] = GlobalEntry(i) BY <1>1, <1>3
  <2>2. /\ Whole(table[i]) /\ table[i].blk.slot = i /\ table[i].src = "static"
        BY <2>1, NewEntryWhole DEF GlobalEntry
  <2>3. table[i] \in Entries BY <1>1, <1>3, <2>1, GlobalEntryType
  <2> QED BY <2>2, <2>3
<1>5. ASSUME NEW i \in Unfreed(table) PROVE Fits(table, i)
  <2>1. i \in 1..Len(table) BY DEF Unfreed
  <2>2. SameBlock(table, i) = {i}
    <3>1. ASSUME NEW j \in SameBlock(table, i) PROVE j = i
      <4>1. j \in 1..Len(table) /\ table[j].blk = table[i].blk BY DEF SameBlock, Unfreed
      <4> QED BY <1>4, <2>1, <4>1
    <3>2. i \in SameBlock(table, i) BY DEF SameBlock
    <3> QED BY <3>1, <3>2
  <2> QED BY <1>4, <2>1, <2>2, WholeFits
<1>6. HeapOwned(table, heapLive) BY <1>1, <1>4 DEF HeapOwned, Unfreed
<1> QED BY <1>1, <1>5, <1>6 DEF Tiled, FreedWell, FreedExactlyOnce

(* Every step but a split that moves the table keeps the blocks tiled.       *)
LEMMA NextTiled ==
    ASSUME TypeOK, TypeOK', GenInv, PlacedInv, TiledInv, [Next]_vars, [NothingMoved]_vars,
           "local" \notin SplitSources \/ [LocalsWhole]_vars
    PROVE  TiledInv'
<1>u. CASE UNCHANGED vars BY <1>u DEF vars, TiledInv, FreedWell, FreedExactlyOnce
<1> SUFFICES ASSUME Next, LocalsWhole, NothingMoved, InOrder,
                    InPlace(table, fibers), Tiled(table), HeapOwned(table, heapLive),
                    FreedWell
             PROVE  /\ Tiled(table') /\ HeapOwned(table', heapLive')
                    /\ FreedWell'
    BY <1>u, NoneSplit DEF TiledInv, PlacedInv
<1> DEFINE Good == /\ Tiled(table') /\ HeapOwned(table', heapLive')
                   /\ FreedWell'
<1>a. /\ Len(table) \in Nat /\ curGen \in 0..Generations - 1 /\ epoch \in Nat
      /\ \A i \in 1..Len(table) : table[i] \in Entries
      BY Types
<1>1. ASSUME NEW size \in StaticSizes, AddStatic(size) PROVE Good
  <2>1. size \in Nat BY MemoryAssumption DEF MemoryAssumption
  <2>2. table' = Append(table, NewEntry("static", "allocated", Len(table) + 1, curGen, size))
        BY <1>1 DEF AddStatic, Push
  <2>3. Tiled(table') /\ HeapOwned(table', heapLive)
        BY <1>a, <2>1, <2>2, PushOtherTiled DEF Sources, Statuses
  <2> QED BY <1>1, <2>3 DEF AddStatic, Running, FreedWell, FreedExactlyOnce
<1>2. ASSUME NEW size \in HeapSizes, HeapAlloc(size) PROVE Good
  <2>1. size \in Nat BY MemoryAssumption DEF MemoryAssumption
  <2>2. Tiled(table') /\ HeapOwned(table', heapLive') BY <1>2, <2>1, PushHeapTiled DEF HeapAlloc
  <2> QED BY <1>2, <2>2 DEF HeapAlloc, Running, FreedWell, FreedExactlyOnce
<1>3. ASSUME NEW a \in Addresses, TransferLocal(a) PROVE Good
  <2>1. table[a.slot] \in Entries BY <1>3, ResolvesToEntry DEF TransferLocal
  <2>2. table[a.slot].size \in Nat BY <2>1 DEF Entries
  <2>3. Tiled(table') /\ HeapOwned(table', heapLive') BY <1>3, <2>2, PushHeapTiled DEF TransferLocal
  <2> QED BY <1>3, <2>3 DEF TransferLocal, Running, FreedWell, FreedExactlyOnce
<1>4. ASSUME NEW a \in Addresses, HeapFree(a) PROVE Good
  <2>1. Tiled(table') /\ HeapOwned(table', heapLive') /\ fault' = "none" BY <1>4, HeapFreeTiled
  <2> QED BY <1>4, <2>1 DEF HeapFree, Running, FreedWell, FreedExactlyOnce
<1>5. ASSUME NEW a \in Addresses, Poison(a) \/ Unpoison(a) PROVE Good
  <2>1. Tiled(table') /\ HeapOwned(table', heapLive) BY <1>5, PoisonTable, TouchedTiled
  <2>2. UNCHANGED <<heapLive, fault, ended, calling>> BY <1>5 DEF Poison, Unpoison
  <2> QED BY <2>1, <2>2 DEF FreedWell, FreedExactlyOnce
<1>6. ASSUME NEW a \in Addresses, NEW offset \in SplitOffsets, NEW moved \in BOOLEAN,
             Split(a, offset, moved)
      PROVE  Good
  <2> DEFINE u == table'
  <2>1. moved = FALSE BY <1>6 DEF NothingMoved
  <2>2. /\ a.slot \in 1..Len(table) /\ CanBeFreed(table[a.slot])
        /\ offset \in Nat /\ offset < table[a.slot].size
        /\ Len(u) = Len(table) + 1
        /\ \A i \in 1..Len(table) :
              u[i] = IF i = a.slot /\ ~moved THEN HeadPiece(table[a.slot], offset) ELSE table[i]
        /\ u[Len(table) + 1] = TailPiece(table[a.slot], offset)
        BY <1>6, SplitTable
  <2>3. \A i \in 1..Len(table) :
              u[i] = IF i = a.slot THEN HeadPiece(table[a.slot], offset) ELSE table[i]
        BY <2>1, <2>2
  <2>4. a.slot \in Unfreed(table) BY <2>2 DEF Unfreed
  <2> HIDE DEF u
  <2>5. Tiled(u) /\ HeapOwned(u, heapLive) BY <1>a, <2>2, <2>3, <2>4, SplitTiled
  <2> QED BY <1>6, <2>5 DEF u, Split, Running, FreedWell, FreedExactlyOnce
<1>7. ASSUME NEW a1 \in Addresses, NEW a2 \in Addresses, Merge(a1, a2) PROVE Good
  <2> DEFINE u == table'
             r == a1.slot
             s == a2.slot
  <2>1. /\ r \in 1..Len(table) /\ s \in 1..Len(table) /\ r # s
        /\ CanBeFreed(table[r]) /\ CanBeFreed(table[s])
        /\ table[r].blk = table[s].blk
        /\ Adjacent(table[r], table[s])
        /\ table[r].split # "unsplit" /\ table[s].split # "unsplit" /\ table[s].split # "split_first"
        /\ Len(u) = Len(table)
        /\ \A i \in 1..Len(table) :
              u[i] = IF i = r THEN Grown(table[r], table[s])
                     ELSE IF i = s THEN [table[i] EXCEPT !.status = "freed"]
                     ELSE table[i]
        BY <1>7, MergeTable
  <2> HIDE DEF u, r, s
  <2>2. r \in Unfreed(table) /\ s \in Unfreed(table) BY <2>1 DEF Unfreed
  <2>3. Tiled(u) /\ HeapOwned(u, heapLive) BY <1>a, <2>1, <2>2, MergedTiled
  <2> QED BY <1>7, <2>3 DEF u, Merge, Running, FreedWell, FreedExactlyOnce
<1>8. ASSUME NEW unreachable \in SUBSET (1..Len(table)), Collect(unreachable) PROVE Good
  <2>1. Tiled(table') /\ HeapOwned(table', heapLive') /\ fault' = "none" BY <1>8, CollectTiled
  <2> QED BY <1>8, <2>1 DEF Collect, Running, FreedWell, FreedExactlyOnce
<1>9. ASSUME NEW f \in Fibers, CreateFiber(f) PROVE Good
  <2>1. table' = Append(table, NewEntry("fiber", "poison", Len(table) + 1, 0, 0))
        BY <1>9 DEF CreateFiber, Push
  <2>2. 0 \in 0..Generations - 1
    <3>1. Generations \in Nat \ {0} BY MemoryAssumption DEF MemoryAssumption
    <3> QED BY <3>1
  <2>3. Tiled(table') /\ HeapOwned(table', heapLive)
        BY <2>1, <2>2, PushOtherTiled DEF Sources, Statuses
  <2> QED BY <1>9, <2>3 DEF CreateFiber, Running, FreedWell, FreedExactlyOnce
<1>10. ASSUME NEW f \in Fibers, DestroyFiber(f) PROVE Good
  <2>1. /\ RemoveFreed(MarkFreed(Cancelled(f))) /\ UNCHANGED fault
        /\ fibers[f].status # "absent"
        /\ \A p \in Visited(f) : table[p[2]].split = "unsplit"
        BY <1>10, DestroyShape DEF DestroyFiber
  <2>2. ASSUME NEW i \in Cancelled(f)
        PROVE  i \in Unfreed(table) /\ table[i].split = "unsplit" /\ table[i].src # "heap"
    <3>1. CASE i = fibers[f].handle
      BY <2>1, <3>1 DEF InPlace, HandlesHeld, IsHandle, Untouched, Unfreed
    <3>2. CASE i # fibers[f].handle
      <4>1. PICK p \in Visited(f) : i = p[2] BY <2>2, <3>2 DEF Cancelled
      <4>2. p[1] \in 1..Len(fibers[f].frames) /\ i \in FrameLocals(fibers[f].frames[p[1]])
            BY <4>1 DEF Visited
      <4> QED BY <2>1, <4>1, <4>2, LocalInPlace DEF HoldsLocal, Unfreed
    <3> QED BY <3>1, <3>2
  <2>3. Tiled(table') /\ HeapOwned(table', heapLive) BY <2>1, <2>2, TrimTiled
  <2> QED BY <1>10, <2>1, <2>3 DEF DestroyFiber, Running, FreedWell, FreedExactlyOnce
<1>11. ASSUME NEW f \in Fibers, ReturnFree(f) PROVE Good
  <2>1. /\ RemoveFreed(MarkFreed(FrameLocals(TopFrame(f))))
        /\ \A i \in FrameLocals(TopFrame(f)) : table[i].split = "unsplit"
        BY <1>11, ReturnShape
  <2>2. /\ Len(fibers[f].frames) \in 1..Len(fibers[f].frames)
        /\ TopFrame(f) = fibers[f].frames[Len(fibers[f].frames)]
        BY <1>11, FrameOnTop
  <2>3. \A i \in FrameLocals(TopFrame(f)) :
           i \in Unfreed(table) /\ table[i].split = "unsplit" /\ table[i].src # "heap"
        BY <2>1, <2>2, LocalInPlace DEF HoldsLocal, Unfreed
  <2>4. Tiled(table') /\ HeapOwned(table', heapLive) BY <2>1, <2>3, TrimTiled
  <2> QED BY <1>11, <2>4 DEF ReturnFree, Running, FreedWell, FreedExactlyOnce
<1>12. ASSUME NEW f \in Fibers, NEW n \in LocalCounts, Call(f, n) PROVE Good
  BY <1>12 DEF Call, Running, FreedWell, FreedExactlyOnce
<1>13. CASE GrowTable BY <1>13 DEF GrowTable, FreedWell, FreedExactlyOnce
<1>14. CASE SetupLocals
  <2>1. Tiled(table') /\ HeapOwned(table', heapLive) BY <1>14, SetUpTiled
  <2> QED BY <1>14, <2>1 DEF SetupLocals, FreedWell, FreedExactlyOnce
<1>15. CASE Cleanup
  <2>1. Tiled(table') /\ HeapOwned(table', heapLive') /\ fault' = "none" /\ heapLive' = {}
        BY <1>15, CleanupTiled
  <2> QED BY <1>15, <2>1 DEF Cleanup, Running, FreedWell, FreedExactlyOnce
<1> QED BY <1>1, <1>2, <1>3, <1>4, <1>5, <1>6, <1>7, <1>8, <1>9, <1>10, <1>11, <1>12, <1>13, <1>14,
           <1>15
        DEF Next

(* The blocks that the table covers are tiled at all times.                  *)
LEMMA TiledHolds == Spec /\ SplitsStay /\ LocalsMerged => [](TypeOK /\ PlacedInv /\ TiledInv)
<1>1. Init => TypeOK /\ GenInv /\ PlacedInv /\ TiledInv BY InitType, GenInit, InitPlaced, InitTiled
<1>2. ASSUME "local" \notin SplitSources
      PROVE  Spec /\ SplitsStay => [](TypeOK /\ PlacedInv /\ TiledInv)
  <2>1. TypeOK /\ GenInv /\ PlacedInv /\ TiledInv /\ [Next]_vars /\ [NothingMoved]_vars
        => (TypeOK /\ GenInv /\ PlacedInv /\ TiledInv)'
        BY <1>2, NextType, GenNext, NextPlaced, NextTiled
  <2> QED BY <1>1, <2>1, PTL DEF Spec, SplitsStay
<1>3. ASSUME InOrder
      PROVE  Spec /\ SplitsStay /\ [][LocalsWhole]_vars => [](TypeOK /\ PlacedInv /\ TiledInv)
  <2>1. TypeOK /\ GenInv /\ PlacedInv /\ TiledInv
        /\ [Next]_vars /\ [NothingMoved]_vars /\ [LocalsWhole]_vars
        => (TypeOK /\ GenInv /\ PlacedInv /\ TiledInv)'
        BY <1>3, NextType, GenNext, NextPlaced, NextTiled
  <2> QED BY <1>1, <2>1, PTL DEF Spec, SplitsStay
<1> QED BY <1>2, <1>3 DEF LocalsMerged

(* However a block is split and merged, every byte of it belongs to one      *)
(* entry that is not freed, and one such entry says it is the first, if      *)
(* pieces are merged in the order of the split, no split moves the table,    *)
(* and no function returns and no fiber is destroyed while one of its local  *)
(* variables is split.                                                       *)
THEOREM PiecesTile == Spec /\ SplitsStay /\ LocalsMerged => [](InOrder => PiecesTileBlock)
<1>1. TypeOK /\ PlacedInv /\ TiledInv => (InOrder => PiecesTileBlock)
  <2> SUFFICES ASSUME TypeOK, InPlace(table, fibers), Tiled(table), HeapOwned(table, heapLive)
               PROVE  PiecesTileBlock
    BY DEF TiledInv, PlacedInv
  <2>1. \A j \in 1..Len(table) : table[j] \in Entries BY Types
  <2>2. ASSUME NEW b, b \in heapLive \/ b \in LiveLocals
        PROVE  \E i \in Pieces(b) : IsHead(table[i])
    <3>1. CASE b \in heapLive BY <3>1 DEF HeapOwned, Pieces, Unfreed
    <3>2. CASE b \in LiveLocals
      <4>1. PICK f \in Fibers :
                \E d \in 1..Len(fibers[f].frames) : \E i \in FrameLocals(fibers[f].frames[d]) :
                   b = LocalBlock(fibers[f].frames[d], i)
            BY <3>2 DEF LiveLocals
      <4>2. PICK d \in 1..Len(fibers[f].frames) : \E i \in FrameLocals(fibers[f].frames[d]) :
                b = LocalBlock(fibers[f].frames[d], i)
            BY <4>1
      <4>3. PICK i \in FrameLocals(fibers[f].frames[d]) : b = LocalBlock(fibers[f].frames[d], i) BY <4>2
      <4>4. i \in 1..Len(table) /\ HoldsLocal(table[i], fibers[f].frames[d], i) BY LocalInPlace
      <4> QED BY <4>3, <4>4 DEF HoldsLocal, Pieces
    <3> QED BY <2>2, <3>1, <3>2
  <2>3. ASSUME NEW b, NEW i \in Pieces(b)
        PROVE  /\ i \in Unfreed(table) /\ table[i].blk = b /\ Pieces(b) = SameBlock(table, i)
               /\ table[i].off \in Nat /\ table[i].size \in Nat
    BY <2>1 DEF Pieces, SameBlock, Unfreed, Entries
  <2>4. ASSUME NEW b, NEW i \in Pieces(b), NEW j \in Pieces(b) \ {i} PROVE Beside(table[i], table[j])
    BY <2>3 DEF Tiled, Fits
  <2>5. ASSUME NEW b, NEW k \in Pieces(b), IsHead(table[k]), NEW x \in 0..b.size - 1
        PROVE  \E i \in Pieces(b) :
                 /\ table[i].off <= x /\ x < table[i].off + table[i].size
                 /\ \A j \in Pieces(b) \ {i} :
                       ~(table[j].off <= x /\ x < table[j].off + table[j].size)
    <3>1. Headed(table, k) BY <2>3, <2>5 DEF Headed
    <3>2. PICK i \in Pieces(b) : Covers(table[i], x) BY <2>3, <3>1 DEF Tiled, Fits
    <3>3. ASSUME NEW j \in Pieces(b) \ {i}, Covers(table[j], x) PROVE FALSE
      <4>1. /\ table[i].off \in Nat /\ table[i].size \in Nat
            /\ table[j].off \in Nat /\ table[j].size \in Nat
            BY <2>3
      <4>2. x \in Int
        <5>1. table[k] \in Entries BY <2>1, <2>3 DEF Unfreed
        <5> QED BY <2>3, <5>1 DEF Entries, Blocks
      <4> QED BY <2>4, <3>2, <3>3, <4>1, <4>2 DEF Beside, Covers
    <3> QED BY <3>2, <3>3 DEF Covers
  <2>6. ASSUME NEW b, NEW k \in Pieces(b), IsHead(table[k])
        PROVE  \E i \in Pieces(b) :
                 /\ table[i].split \in {"unsplit", "split_first"}
                 /\ table[i].off = 0
                 /\ table[i].split = "unsplit" => table[i].size = b.size
                 /\ \A j \in Pieces(b) \ {i} : table[j].split \in {"split_middle", "split_last"}
    <3>1. k \in Unfreed(table) /\ table[k].blk = b /\ Pieces(b) = SameBlock(table, k) BY <2>3
    <3>2. Headed(table, k) BY <2>6, <3>1 DEF Headed
    <3> QED BY <2>1, <3>1, <3>2, OneHead
  <2> QED BY <2>2, <2>5, <2>6 DEF PiecesTileBlock
<1> QED BY <1>1, TiledHolds, PTL

(* Every heap block is given back to the allocator once, whatever splits and *)
(* merges came before, and at the latest when the process is destroyed; with *)
(* the same conditions.                                                      *)
THEOREM BlocksFreedOnce == Spec /\ SplitsStay /\ LocalsMerged => [](InOrder => FreedExactlyOnce)
<1>1. TiledInv => (InOrder => FreedExactlyOnce) BY DEF TiledInv, FreedWell
<1> QED BY <1>1, TiledHolds, PTL

(* What passes the checks of an access is memory that exists, with the same  *)
(* conditions and if gc() never destroys a fiber: it leaves the entries of   *)
(* the local variables on that fiber's stack.                                *)
THEOREM NothingDangles ==
    Spec /\ SplitsStay /\ LocalsMerged => [](InOrder /\ ~CollectFibers => NoDanglingEntry)
<1>1. TypeOK /\ PlacedInv /\ TiledInv => (InOrder /\ ~CollectFibers => NoDanglingEntry)
  <2> SUFFICES ASSUME InPlace(table, fibers), Tiled(table), HeapOwned(table, heapLive), ~CollectFibers,
                      NEW i \in 1..Len(table), IsUsable(table[i]), table[i].size > 0
               PROVE  /\ table[i].src = "heap" => table[i].blk \in heapLive
                      /\ table[i].src = "local" =>
                            \E f \in Fibers : \E d \in 1..Len(fibers[f].frames) :
                               /\ table[i].blk.slot \in FrameLocals(fibers[f].frames[d])
                               /\ table[i].blk = LocalBlock(fibers[f].frames[d], table[i].blk.slot)
    BY DEF PlacedInv, TiledInv, NoDanglingEntry
  <2>1. i \in Unfreed(table) BY DEF IsUsable, CanBeFreed, Unfreed
  <2>2. PICK j \in SameBlock(table, i) : IsHead(table[j]) BY <2>1 DEF Tiled, Fits, Headed
  <2>3. j \in Unfreed(table) /\ table[j].blk = table[i].blk BY DEF SameBlock
  <2>4. table[j].src = table[i].src
    <3>1. CASE j = i BY <3>1
    <3>2. CASE j # i
      <4>1. Beside(table[i], table[j]) BY <2>1, <3>2 DEF Tiled, Fits
      <4> QED BY <4>1 DEF Beside
    <3> QED BY <3>1, <3>2
  <2>5. table[i].src = "heap" => table[i].blk \in heapLive BY <2>2, <2>3, <2>4 DEF HeapOwned
  <2>6. ASSUME table[i].src = "local"
        PROVE  \E f \in Fibers : \E d \in 1..Len(fibers[f].frames) :
                  /\ table[i].blk.slot \in FrameLocals(fibers[f].frames[d])
                  /\ table[i].blk = LocalBlock(fibers[f].frames[d], table[i].blk.slot)
    <3>1. LocalsOwned(table, fibers) BY DEF InPlace
    <3>2. j \in 1..Len(table) /\ CanBeFreed(table[j]) BY <2>3 DEF Unfreed
    <3>3. PICK f \in Fibers : \E d \in 1..Len(fibers[f].frames) : j \in FrameLocals(fibers[f].frames[d])
          BY <2>2, <2>4, <2>6, <3>1, <3>2 DEF LocalsOwned
    <3>4. PICK d \in 1..Len(fibers[f].frames) : j \in FrameLocals(fibers[f].frames[d]) BY <3>3
    <3>5. table[j].blk = LocalBlock(fibers[f].frames[d], j) BY <3>4, LocalInPlace DEF HoldsLocal
    <3>6. table[j].blk.slot = j BY <3>5 DEF LocalBlock
    <3> QED BY <2>3, <3>4, <3>5, <3>6
  <2> QED BY <2>5, <2>6
<1> QED BY <1>1, TiledHolds, PTL
=============================================================================
