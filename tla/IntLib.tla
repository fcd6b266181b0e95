------------------------------- MODULE IntLib -------------------------------
(***************************************************************************)
(* The builtins of lib/int.cpp and lib/bits.cpp, and the conversions of    *)
(* the integer types when they are loaded and stored.                      *)
(*                                                                         *)
(* A builtin takes the words x, the top of the stack first as in           *)
(* vstack_ptr[0], vstack_ptr[1], and gives the words that replace them, or *)
(* panics.                                                                 *)
(***************************************************************************)
EXTENDS Words, Sequences

CONSTANT Narrow     \* widths in bits of the smaller integer types (8, 16, 32)

ASSUME IntLibAssumption == \A n \in Narrow : n \in 1..WordBits - 1

Returns(values) == [panics |-> FALSE, values |-> values]
Panics          == [panics |-> TRUE, values |-> <<>>]

Flag(b) == IF b THEN 1 ELSE 0

Overflows == {"flag", "wrap", "sat", "panic"}

(* __builtin_X_overflow stores the result modulo 2^WordBits and tells        *)
(* whether that is another; the four variants differ in what they do then.   *)
OnOverflow(overflow, exact, overflowed, saturated) ==
    CASE overflow = "flag"  -> Returns(<<Flag(overflowed), AsUint(exact)>>)
      [] overflow = "wrap"  -> Returns(<<AsUint(exact)>>)
      [] overflow = "sat"   -> Returns(<<AsUint(IF overflowed THEN saturated ELSE exact)>>)
      [] overflow = "panic" -> IF overflowed THEN Panics ELSE Returns(<<AsUint(exact)>>)

Signed(overflow, exact, saturated) ==
    OnOverflow(overflow, exact, exact \notin SintMin..SintMax, saturated)
Unsigned(overflow, exact, saturated) ==
    OnOverflow(overflow, exact, exact \notin 0..UintMax, saturated)

-----------------------------------------------------------------------------
(* Arithmetic: on overflow, the sign of an operand tells the sign of the     *)
(* exact result, which the wrapped one has lost.                             *)

sadd(overflow, x) ==
    Signed(overflow, AsSint(x[2]) + AsSint(x[1]), IF AsSint(x[1]) < 0 THEN SintMin ELSE SintMax)

ssub(overflow, x) ==
    Signed(overflow, AsSint(x[2]) - AsSint(x[1]), IF AsSint(x[1]) < 0 THEN SintMax ELSE SintMin)

smul(overflow, x) ==
    LET different_signs == (AsSint(x[2]) < 0) # (AsSint(x[1]) < 0)
    IN  Signed(overflow, AsSint(x[2]) * AsSint(x[1]), IF different_signs THEN SintMin ELSE SintMax)

uadd(overflow, x) == Unsigned(overflow, x[2] + x[1], UintMax)
usub(overflow, x) == Unsigned(overflow, x[2] - x[1], 0)
umul(overflow, x) == Unsigned(overflow, x[2] * x[1], UintMax)

(* Division and remainder of C, which truncate towards zero.                 *)
Abs(i) == IF i < 0 THEN -i ELSE i
Quotient(l, r)  == IF (l < 0) = (r < 0) THEN Abs(l) \div Abs(r) ELSE -(Abs(l) \div Abs(r))
Remainder(l, r) == l - r * Quotient(l, r)

sdiv(overflow, x) ==
    LET lhs == AsSint(x[2])
        rhs == AsSint(x[1])
    IN  IF rhs = 0 THEN Panics
        ELSE IF lhs = SintMin /\ rhs = -1
             THEN OnOverflow(overflow, SintMin, TRUE, SintMax)
             ELSE OnOverflow(overflow, Quotient(lhs, rhs), FALSE, 0)

udiv(x) == IF x[1] = 0 THEN Panics ELSE Returns(<<x[2] \div x[1]>>)

srem(x) ==
    LET lhs == AsSint(x[2])
        rhs == AsSint(x[1])
    IN  IF rhs = 0 THEN Panics
        ELSE Returns(<<IF lhs = SintMin /\ rhs = -1 THEN 0 ELSE AsUint(Remainder(lhs, rhs))>>)

urem(x) == IF x[1] = 0 THEN Panics ELSE Returns(<<x[2] % x[1]>>)

scmp(x) == Returns(<<AsUint(Flag(AsSint(x[2]) > AsSint(x[1])) - Flag(AsSint(x[2]) < AsSint(x[1])))>>)
ucmp(x) == Returns(<<AsUint(Flag(x[2] > x[1]) - Flag(x[2] < x[1]))>>)

-----------------------------------------------------------------------------
(* Conversions: the word stays, only its reading changes.                    *)

stou(overflow, x) == OnOverflow(overflow, x[1], AsSint(x[1]) < 0, 0)
utos(overflow, x) == OnOverflow(overflow, x[1], x[1] > SintMax, SintMax)

(* The smallest integer has no counterpart: it stays as it is.               *)
sabs(overflow, x) ==
    LET input == AsSint(x[1])
    IN  OnOverflow(overflow, IF input = SintMin THEN input ELSE Abs(input), input = SintMin, SintMax)

uabs(x) ==
    LET input == AsSint(x[1])
    IN  Returns(<<IF input = SintMin THEN SintMax + 1 ELSE IF input < 0 THEN -input ELSE x[1]>>)

(* sN_overflow and uN_overflow: does the value fit N bits?                   *)
s_overflow(n, x) == Returns(<<Flag(AsSint(x[1]) \notin -(2 ^ (n - 1))..2 ^ (n - 1) - 1), x[1]>>)
u_overflow(n, x) == Returns(<<Flag(x[1] > 2 ^ n - 1), x[1]>>)
word_overflow(x) == Returns(<<0, x[1]>>)

(* load_int and store_int of a type of n bits.                               *)
LoadInt(signed, n, bits) == IF signed /\ bits >= 2 ^ (n - 1) THEN AsUint(bits - 2 ^ n) ELSE bits
StoreInt(n, w)           == Low(w, n)

-----------------------------------------------------------------------------
(* Bits *)

bits_and(x) == Returns(<<OfBits(Bits(x[2]) \cap Bits(x[1]))>>)
bits_or(x)  == Returns(<<OfBits(Bits(x[2]) \cup Bits(x[1]))>>)
bits_xor(x) == Returns(<<OfBits((Bits(x[2]) \cup Bits(x[1])) \ (Bits(x[2]) \cap Bits(x[1])))>>)

shl(x)  == IF x[1] >= WordBits THEN Panics ELSE Returns(<<AsUint(x[2] * 2 ^ x[1])>>)
ushr(x) == IF x[1] >= WordBits THEN Panics ELSE Returns(<<x[2] \div 2 ^ x[1]>>)
sshr(x) == IF x[1] >= WordBits THEN Panics ELSE Returns(<<AsUint(AsSint(x[2]) \div 2 ^ x[1])>>)

-----------------------------------------------------------------------------
(* The libraries lauf.int and lauf.bits.  Every builtin of them runs without *)
(* a process and can be folded; no_panic is LAUF_RUNTIME_BUILTIN_NO_PANIC.   *)

Binary      == {"sadd", "ssub", "smul", "uadd", "usub", "umul", "sdiv"}
Conversions == {"stou", "utos", "sabs"}
Plain       == {"udiv", "srem", "urem", "scmp", "ucmp", "and", "or", "xor", "shl", "ushr", "sshr"}
CanPanic    == {"udiv", "srem", "urem", "shl", "ushr", "sshr"}
Fits        == {"s_overflow", "u_overflow"}

Builtin(name, variant, bits, in, out, no_panic) ==
    [name |-> name, variant |-> variant, bits |-> bits, in |-> in, out |-> out, no_process |-> TRUE,
     no_panic |-> no_panic, fold |-> TRUE, always_panic |-> FALSE]

Results(overflow) == IF overflow = "flag" THEN 2 ELSE 1

Library ==
         {Builtin(f[1], f[2], 0, 2, Results(f[2]), f[2] # "panic" /\ f[1] # "sdiv") : f \in Binary \X Overflows}
    \cup {Builtin(f[1], f[2], 0, 1, Results(f[2]), f[2] # "panic") : f \in Conversions \X Overflows}
    \cup {Builtin(name, "", 0, 2, 1, name \notin CanPanic) : name \in Plain}
    \cup {Builtin(f[1], "", f[2], 1, 2, TRUE) : f \in Fits \X Narrow}
    \cup {Builtin("uabs", "", 0, 1, 1, TRUE), Builtin("word_overflow", "", 0, 1, 2, TRUE)}

(* What callee.impl does when it is called.                                  *)
CallLibrary(b, x) ==
    CASE b.name = "sadd" -> sadd(b.variant, x)
      [] b.name = "ssub" -> ssub(b.variant, x)
      [] b.name = "smul" -> smul(b.variant, x)
      [] b.name = "uadd" -> uadd(b.variant, x)
      [] b.name = "usub" -> usub(b.variant, x)
      [] b.name = "umul" -> umul(b.variant, x)
      [] b.name = "sdiv" -> sdiv(b.variant, x)
      [] b.name = "udiv" -> udiv(x)
      [] b.name = "srem" -> srem(x)
      [] b.name = "urem" -> urem(x)
      [] b.name = "scmp" -> scmp(x)
      [] b.name = "ucmp" -> ucmp(x)
      [] b.name = "stou" -> stou(b.variant, x)
      [] b.name = "utos" -> utos(b.variant, x)
      [] b.name = "sabs" -> sabs(b.variant, x)
      [] b.name = "uabs" -> uabs(x)
      [] b.name = "s_overflow" -> s_overflow(b.bits, x)
      [] b.name = "u_overflow" -> u_overflow(b.bits, x)
      [] b.name = "word_overflow" -> word_overflow(x)
      [] b.name = "and" -> bits_and(x)
      [] b.name = "or"  -> bits_or(x)
      [] b.name = "xor" -> bits_xor(x)
      [] b.name = "shl"  -> shl(x)
      [] b.name = "ushr" -> ushr(x)
      [] b.name = "sshr" -> sshr(x)
=============================================================================
