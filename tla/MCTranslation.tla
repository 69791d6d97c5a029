---------------------------- MODULE MCTranslation ----------------------------
(***************************************************************************)
(* Instances of Translation: a CPU of 8 bits for 64, of 4 for 32, bytes of *)
(* two, instructions of two bytes, a map of guest memory of twelve bytes   *)
(* (addresses reach sixteen) and four registers of each kind.              *)
(***************************************************************************)
EXTENDS Translation

MCVRegAt(n) == 1000 + n
MCVReg == 1000..1040
MCIndices == 0..3

(* Each lane on its own.                                                   *)
MCVecSum(x, y) ==
  Trunc(x + y, NarrowBits)
    + 2 ^ NarrowBits * Trunc(x \div 2 ^ NarrowBits + y \div 2 ^ NarrowBits, NarrowBits)

-----------------------------------------------------------------------------
W(opcd, rd, ra, rb, xo, rc, imm) ==
  [opcd |-> opcd, rd |-> rd, ra |-> ra, rb |-> rb, xo |-> xo,
   mb |-> 0, me |-> 0, rc |-> rc, aa |-> FALSE, imm |-> imm, li |-> 0]

DForm(opcd, rd, ra, imm) == W(opcd, rd, ra, 0, 0, FALSE, imm)
XForm(opcd, rd, ra, rb, xo, rc) == W(opcd, rd, ra, rb, xo, rc, 0)
Rotate(rd, ra, sh, mb, me, rc) ==
  [W(21, rd, ra, sh, 0, rc, 0) EXCEPT !.mb = mb, !.me = me]
IForm(li, rc) == [W(18, 0, 0, 0, 0, rc, 0) EXCEPT !.li = li]
Absolute(w) == [w EXCEPT !.aa = TRUE]

PpcWords ==
  { DForm(14, 1, 0, 3), DForm(14, 0, 1, 1), DForm(15, 2, 1, 3),       \* addi, addis
    DForm(24, 2, 1, 2), DForm(25, 0, 3, 1), DForm(26, 1, 1, 3),       \* ori, oris, xori
    DForm(28, 1, 2, 2),                                               \* andi.
    XForm(31, 1, 2, 2, 266, FALSE), XForm(31, 3, 1, 2, 778, TRUE),    \* add, addo.
    XForm(31, 1, 2, 1, 40, TRUE), XForm(31, 1, 2, 3, 444, FALSE),     \* subf., or
    XForm(31, 2, 1, 3, 28, TRUE), XForm(31, 1, 1, 1, 316, TRUE),      \* and., xor.
    XForm(31, 1, 2, 3, 540, FALSE),                                   \* and with bit 10
    Rotate(1, 2, 1, 0, 2, FALSE), Rotate(2, 1, 3, 3, 1, TRUE),        \* rlwinm
    Rotate(2, 3, 0, 1, 2, FALSE), Rotate(3, 3, 2, 2, 2, TRUE),
    DForm(32, 1, 2, 2), DForm(33, 1, 1, 1), DForm(33, 2, 1, 2),       \* lwz, lwzu
    DForm(34, 3, 0, 1), DForm(36, 1, 2, 2), DForm(36, 2, 0, 0),       \* lbz, stw
    DForm(37, 1, 1, 3), DForm(38, 3, 2, 1),                           \* stwu, stb
    XForm(31, 1, 0, 1, 339, FALSE), XForm(31, 2, 0, 8, 339, FALSE),   \* mfxer, mflr
    XForm(31, 2, 8, 0, 339, FALSE), XForm(31, 1, 0, 9, 467, FALSE),   \* mfspr, mtctr
    XForm(31, 1, 0, 8, 467, FALSE), XForm(31, 1, 8, 0, 467, FALSE),   \* mtlr, mtspr
    IForm(4, FALSE), Absolute(IForm(7, TRUE)),                        \* b, bla
    XForm(19, 20, 0, 0, 16, FALSE), XForm(19, 20, 0, 0, 16, TRUE),    \* blr, blrl
    W(16, 12, 5, 0, 0, FALSE, 2), W(16, 4, 1, 0, 0, TRUE, 3),         \* bt, bfl
    Absolute(W(16, 20, 0, 0, 0, TRUE, 3)), XForm(19, 6, 1, 5, 257, FALSE), \* bcla, crand
    XForm(19, 0, 3, 7, 257, FALSE), XForm(4, 1, 2, 1, 21, FALSE),     \* crand, ps_add
    XForm(19, 0, 0, 0, 150, FALSE) }                                  \* isync

Arm(hi, mid, hw, rd, rn, imm, off) ==
  [hi |-> hi, mid |-> mid, hw |-> hw, rd |-> rd, rn |-> rn, imm |-> imm, off |-> off]

MCNopWord == Arm(106, 2, 0, 3, 0, 0, 0)

A64Words ==
  { Arm(72, 2, 0, 1, 0, 5, 0), Arm(8, 2, 0, 0, 1, 15, 0),   \* add x, w
    Arm(72, 2, 0, 3, 1, 1, 0), Arm(72, 3, 0, 2, 3, 7, 0),   \* to and from register 31
    Arm(104, 2, 0, 1, 1, 1, 0),                             \* sub
    Arm(105, 1, 1, 2, 0, 3, 0), Arm(41, 1, 2, 0, 0, 1, 0),  \* movz
    Arm(73, 0, 0, 1, 1, 1, 0),                              \* another of the class
    Arm(10, 0, 0, 0, 0, 0, -2), Arm(74, 0, 0, 0, 0, 0, 3),  \* b, bl
    Arm(107, 0, 2, 0, 2, 0, 0), Arm(107, 0, 0, 0, 3, 0, 0), \* ret, br
    Arm(107, 0, 1, 0, 1, 0, 0), MCNopWord }                 \* blr, nop

MCWords == [f \in frontends |-> IF f = "ppc" THEN PpcWords ELSE A64Words]

-----------------------------------------------------------------------------
InitialRegs(gprs, lrv, at) ==
  [r \in GuestReg |->
     CASE r.id = "gpr" -> gprs[r.n + 1]
       [] r.id = "vec" -> Trunc(16 * gprs[r.n + 1] + 9, WideBits)
       [] r = cr       -> 150
       [] r = lr       -> lrv
       [] r = ctr      -> 3
       [] r = xer      -> 11
       [] r = pc       -> at
       [] OTHER        -> 0]

Entry(gprs, lrv, at) ==
  [reg |-> InitialRegs(gprs, lrv, at), mem |-> [a \in 0..(MemSize - 1) |-> (3 * a + 1) % 4],
   zero |-> 0, negative |-> 0, env |-> [v \in VReg |-> 0], status |-> "run"]

MCStarts ==
  [f \in frontends |->
     IF f = "ppc" THEN {Entry(<<249, 4, 7, 158>>, 246, 252)}
     ELSE {Entry(<<33, 255, 6, 0>>, 0, 0), Entry(<<2, 15, 240, 0>>, 0, 254)}]
=============================================================================
