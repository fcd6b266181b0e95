------------------------------- MODULE Words -------------------------------
(***************************************************************************)
(* Values of the virtual stack: the union lauf_runtime_value of            *)
(* runtime/value.h.  A value is a word; whether it is an unsigned or a     *)
(* signed integer, an address or a function address is up to whoever       *)
(* reads it, so all of those are views of one word.                        *)
(*                                                                         *)
(* The widths are parameters, in the proportions of the code: an immediate *)
(* has 24 bits, and two immediates and 16 bits make a word of 64; an       *)
(* address is 30 bits of allocation, 2 of generation and 32 of offset.     *)
(***************************************************************************)
EXTENDS Integers, FiniteSets, FiniteSetsExt

CONSTANTS
    ImmBits,    \* bits of the immediate of an instruction (24)
    LastBits,   \* bits of a word above two immediates (16)
    AllocBits,  \* bits of an allocation index in an address (30)
    GenBits,    \* bits of a generation in an address (2)
    IndexBits,  \* bits of a function index in a function address (16)
    CountBits   \* bits of a number of inputs or outputs in it (8)

WordBits == 2 * ImmBits + LastBits

ASSUME WordsAssumption ==
    /\ {ImmBits, LastBits, AllocBits, GenBits, IndexBits, CountBits} \subseteq Nat \ {0}
    /\ LastBits <= ImmBits
    /\ AllocBits + GenBits < WordBits
    /\ IndexBits + 2 * CountBits <= WordBits
    /\ WordBits % 2 = 0

WordSize == 2 ^ WordBits
Word     == 0..WordSize - 1
UintMax  == WordSize - 1
SintMax  == 2 ^ (WordBits - 1) - 1
SintMin  == -(2 ^ (WordBits - 1))

(* The word that represents an integer, modulo 2^WordBits, and the signed    *)
(* integer that a word represents.                                           *)
AsUint(i) == i % WordSize
AsSint(w) == IF w > SintMax THEN w - WordSize ELSE w

Null == UintMax     \* lauf_runtime_address_null, all bits set

-----------------------------------------------------------------------------
(* Bits *)

Bits(w)   == {i \in 0..WordBits - 1 : (w \div 2 ^ i) % 2 = 1}
OfBits(S) == MapThenSumSet(LAMBDA i : 2 ^ i, S)

Or(v, w)    == OfBits(Bits(v) \cup Bits(w))
Low(w, n)   == w % 2 ^ n
High(w, n)  == w \div 2 ^ n

-----------------------------------------------------------------------------
(* Addresses *)

OffsetSize == 2 ^ (WordBits - AllocBits - GenBits)

AddressOf(w) ==
    [allocation |-> Low(w, AllocBits),
     generation |-> Low(High(w, AllocBits), GenBits),
     offset     |-> High(w, AllocBits + GenBits)]

OfAddress(a) ==
    Low(a.allocation, AllocBits)
        + 2 ^ AllocBits * (Low(a.generation, GenBits) + 2 ^ GenBits * (a.offset % OffsetSize))

FunctionAddressOf(w) ==
    [index |-> Low(w, IndexBits),
     in    |-> Low(High(w, IndexBits), CountBits),
     out   |-> Low(High(w, IndexBits + CountBits), CountBits)]

OfFunctionAddress(f) == f.index + 2 ^ IndexBits * (f.in + 2 ^ CountBits * f.out)
=============================================================================
