------------------------------ MODULE GuestBytes ------------------------------
(***************************************************************************)
(* Values of several bytes in guest memory, in either order, as            *)
(* jit/emit.cpp loads and stores them.                                     *)
(***************************************************************************)
EXTENDS Arith

CONSTANT ByteBits   \* 8

Byte == 0..(2 ^ ByteBits - 1)

(* The place in the value of byte k of so many, and the byte at place k.   *)
Place(k, bytes, big) == IF big THEN bytes - 1 - k ELSE k

LoadBytes(mem, a, bytes, big) ==
  WithBits(LAMBDA n :
    /\ n < ByteBits * bytes
    /\ BitOf(mem[a + Place(n \div ByteBits, bytes, big)], n % ByteBits) = 1)

StoreBytes(mem, a, bytes, big, x) ==
  [c \in DOMAIN mem |->
     IF c \in a..(a + bytes - 1)
     THEN Trunc(x \div 2 ^ (ByteBits * Place(c - a, bytes, big)), ByteBits)
     ELSE mem[c]]
=============================================================================
