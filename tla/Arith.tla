-------------------------------- MODULE Arith --------------------------------
(***************************************************************************)
(* The arithmetic of the IR on words of WideBits (64 in the code) or, for  *)
(* ops of any width below, NarrowBits (32): as const_fold computes it,     *)
(* src/core/passes.rs, and as the emitted instructions do, jit/emit.cpp.   *)
(***************************************************************************)
EXTENDS Integers

CONSTANTS WideBits, NarrowBits

ASSUME BitsAssumption == WideBits \in Nat /\ NarrowBits \in 1..WideBits

(* What ^ is, as far as widths reach.                                      *)
ASSUME PowerAssumption == 2 ^ 0 = 1 /\ \A n \in 0..WideBits : 2 ^ (n + 1) = 2 * 2 ^ n

Word == 0..(2 ^ WideBits - 1)

Trunc(x, bits) == x % 2 ^ bits

Signed(x, bits) == IF x >= 2 ^ (bits - 1) THEN x - 2 ^ bits ELSE x

BitOf(x, n) == (x \div 2 ^ n) % 2

(* The word whose ones are at the positions in S.                          *)
Ones(S) ==
  LET below[n \in 0..WideBits] ==
        IF n = 0 THEN 0
        ELSE below[n - 1] + (IF n - 1 \in S THEN 2 ^ (n - 1) ELSE 0)
  IN  below[WideBits]

WithBits(P(_)) == Ones({n \in 0..(WideBits - 1) : P(n)})

(* A two-operand instruction on words of so many bits.  A shift counts     *)
(* modulo the width.                                                       *)
Alu(name, bits, x, y) ==
  CASE name = "add" -> Trunc(x + y, bits)
    [] name = "sub" -> Trunc(x - y, bits)
    [] name = "mul" -> Trunc(x * y, bits)
    [] name = "and" -> WithBits(LAMBDA n : BitOf(x, n) = 1 /\ BitOf(y, n) = 1)
    [] name = "or"  -> WithBits(LAMBDA n : BitOf(x, n) = 1 \/ BitOf(y, n) = 1)
    [] name = "xor" -> WithBits(LAMBDA n : BitOf(x, n) # BitOf(y, n))
    [] name = "shl" -> Trunc(x * 2 ^ (y % bits), bits)
    [] name = "shr" -> x \div 2 ^ (y % bits)
    [] name = "sar" -> Trunc(Signed(x, bits) \div 2 ^ (y % bits), bits)

(* What const_fold computes, whatever the width of the op.                 *)
WideFold(name, x, y) == Alu(name, WideBits, x, y)

(* What the emitted code computes: operands and result of a narrow op are  *)
(* zero-extended from its width.                                           *)
Emitted(name, wide, x, y) ==
  IF wide THEN Alu(name, WideBits, x, y)
  ELSE Alu(name, NarrowBits, Trunc(x, NarrowBits), Trunc(y, NarrowBits))
=============================================================================
