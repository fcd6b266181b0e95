----------------------------- MODULE MemoryLib -----------------------------
(***************************************************************************)
(* The builtins of lib/memory.cpp that do arithmetic on addresses, and the *)
(* ones that copy, fill and compare memory.  They need the process, so the *)
(* builder never folds them; m is the machine they are called on.          *)
(***************************************************************************)
EXTENDS Machine

(* addr_offset: an offset that does not exist becomes the greatest one.      *)
AddrOffset(a, by) == IF a.offset + by \in 0..OffsetSize - 1 THEN a.offset + by ELSE OffsetSize - 1

(* validate_addr_offset: strict if the end of the allocation is not allowed. *)
ValidOffset(m, a, offset, strict) ==
    LET alloc == Allocation(m, a)
    IN  alloc.kind # "none" /\ (IF strict THEN offset < alloc.size ELSE offset <= alloc.size)

(* addr_add and addr_sub *)
AddrBy(m, overflow, by) ==
    LET a      == AddressOf(m.vs[2])
        offset == AddrOffset(a, by)
    IN  IF overflow # "invalidate" /\ ~ValidOffset(m, a, offset, overflow = "panic_strict") THEN Panic(m)
        ELSE Replace(m, 2, <<OfAddress([a EXCEPT !.offset = offset])>>)

addr_distance(m) ==
    LET lhs == AddressOf(m.vs[2])
        rhs == AddressOf(m.vs[1])
    IN  IF lhs.allocation # rhs.allocation \/ lhs.generation # rhs.generation THEN Panic(m)
        ELSE Replace(m, 2, <<AsUint(lhs.offset - rhs.offset)>>)

(* lauf_runtime_get_const_ptr and lauf_runtime_get_mut_ptr of count units    *)
MayRead(m, a, count)  == Accessible(m, Allocation(m, a), a.offset, [size |-> count, align |-> 1])
MayWrite(m, a, count) == ~Allocation(m, a).const /\ MayRead(m, a, count)

PointerTo(m, a) ==
    LET alloc == Allocation(m, a)
    IN  [kind |-> alloc.kind, index |-> alloc.index, at |-> alloc.at + a.offset]

copy(m) ==
    LET dest  == AddressOf(m.vs[3])
        src   == AddressOf(m.vs[2])
        count == m.vs[1]
    IN  IF ~MayWrite(m, dest, count) \/ ~MayRead(m, src, count) THEN Panic(m)
        ELSE Replace(Write(m, PointerTo(m, dest), UnitsAt(m, PointerTo(m, src), count)), 3, <<>>)

fill(m) ==
    LET dest  == AddressOf(m.vs[3])
        unit  == StoreInt(UnitBits, m.vs[2])
        count == m.vs[1]
    IN  IF ~MayWrite(m, dest, count) THEN Panic(m)
        ELSE Replace(Write(m, PointerTo(m, dest), [k \in 1..count |-> unit]), 3, <<>>)

(* memcmp tells the first difference.                                        *)
cmp(m) ==
    LET lhs    == AddressOf(m.vs[3])
        rhs    == AddressOf(m.vs[2])
        count  == m.vs[1]
        l      == UnitsAt(m, PointerTo(m, lhs), count)
        r      == UnitsAt(m, PointerTo(m, rhs), count)
        differ == {k \in 1..count : l[k] # r[k]}
        result == IF differ = {} THEN 0 ELSE IF l[Min(differ)] < r[Min(differ)] THEN -1 ELSE 1
    IN  IF ~MayRead(m, lhs, count) \/ ~MayRead(m, rhs, count) THEN Panic(m)
        ELSE Replace(m, 3, <<AsUint(result)>>)

AddrOverflows == {"invalidate", "panic", "panic_strict"}

MemoryBuiltin(name, variant, in, out) ==
    [name |-> name, variant |-> variant, bits |-> 0, in |-> in, out |-> out, no_process |-> FALSE,
     no_panic |-> variant = "invalidate", fold |-> FALSE, always_panic |-> FALSE]

MemoryLibrary ==
         {MemoryBuiltin(f[1], f[2], 2, 1) : f \in {"addr_add", "addr_sub"} \X AddrOverflows}
    \cup {MemoryBuiltin("addr_distance", "", 2, 1), MemoryBuiltin("copy", "", 3, 0),
          MemoryBuiltin("fill", "", 3, 0), MemoryBuiltin("cmp", "", 3, 1)}

CallMemoryLibrary(m, b) ==
    CASE b.name = "addr_add" -> AddrBy(m, b.variant, AsSint(m.vs[1]))
      [] b.name = "addr_sub" -> AddrBy(m, b.variant, -AsSint(m.vs[1]))
      [] b.name = "addr_distance" -> addr_distance(m)
      [] b.name = "copy" -> copy(m)
      [] b.name = "fill" -> fill(m)
      [] b.name = "cmp"  -> cmp(m)
=============================================================================
