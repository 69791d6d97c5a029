------------------------------- MODULE AArch64 -------------------------------
(***************************************************************************)
(* The AArch64 frontend, src/frontends/switch_arm64.rs: what a word        *)
(* decodes to, the ops it is lowered to and what the instruction does.     *)
(*                                                                         *)
(* A word is the record of its fields: hi (bits 31 to 25), mid (24, 23),   *)
(* hw (22, 21), rd, rn, imm (the 12 or 16 bits of a literal) and off (the  *)
(* signed offset of a branch, in instructions).                            *)
(***************************************************************************)
EXTENDS IrMachine

CONSTANTS
  ZeroReg,  \* 31
  LinkReg,  \* 30
  NopWord   \* 0xd503201f

class(w) == w.hi % 16
op0(w) == (w.hi % 2) * 4 + w.mid

(* BImm on bits 31 to 26, Br on bits 31 to 25; nop is of class 10, so it   *)
(* never gets as far as the test for it.                                   *)
A64Mnemonic(w) ==
  CASE class(w) \in {8, 9} ->
         IF op0(w) \in {2, 3} THEN "add" ELSE IF op0(w) = 5 THEN "movz" ELSE "unknown"
    [] class(w) \in {10, 11} /\ w.hi \div 2 \in {5, 37} -> "b"
    [] class(w) = 11 /\ w.hi = 107 /\ w.mid * 4 + w.hw \in {0, 2} -> "br"
    [] class(w) \notin 8..11 /\ w = NopWord -> "nop"
    [] OTHER -> "unknown"

A64Terminator(w) == A64Mnemonic(w) \in {"br", "b", "unknown"}

(* sf, or the link bit of a branch.                                        *)
TopBit(w) == w.hi >= 64

A64Target(w, p) == Trunc(p + w.off * InsnLen, WideBits)

WriteUnlessZero(b, n) == IF n = ZeroReg THEN b ELSE write_reg(b, Gpr(n), Result(b))

LowerAdd(b, w) ==
  LET r == IF w.rn = ZeroReg THEN b ELSE read_reg(b, Gpr(w.rn))
      x == IF w.rn = ZeroReg THEN 0 ELSE r.at[Gpr(w.rn)]
  IN  WriteUnlessZero(emit_binary(r, "add", TopBit(w), x, w.imm), w.rd)

LowerMovz(b, w) ==
  WriteUnlessZero(
    emit_binary(b, "or", TopBit(w), 0, Trunc(w.imm * 2 ^ (w.hw * HalfBits), WideBits)),
    w.rd)

LowerB(b, w, p) ==
  LET l == emit_binary(b, "add", TRUE, next_pc(p), 0)
  IN  emit_exit_uncond(IF TopBit(w) THEN write_reg(l, Gpr(LinkReg), Result(l)) ELSE b,
                       A64Target(w, p))

LowerBr(b, w) ==
  LET r == read_reg(b, Gpr(w.rn)) IN emit_exit_indirect(r, r.at[Gpr(w.rn)])

A64Lower(b, w, p) ==
  LET name == A64Mnemonic(w)
  IN
  CASE name = "add"  -> LowerAdd(b, w)
    [] name = "movz" -> LowerMovz(b, w)
    [] name = "b"    -> LowerB(b, w, p)
    [] name = "br"   -> LowerBr(b, w)
    [] name = "nop"  -> b
    [] OTHER         -> emit_unimplemented(b)

-----------------------------------------------------------------------------
(* What the instruction does.  Register 31 is zero, also in the add that   *)
(* has the stack pointer there; subtractions and the other moves decode as *)
(* add and movz.                                                           *)

XOf(m, n) == IF n = ZeroReg THEN 0 ELSE m.reg[Gpr(n)]

Sized(w, x) == Trunc(x, IF TopBit(w) THEN WideBits ELSE NarrowBits)

XWritten(m, n, x) == IF n = ZeroReg THEN m ELSE [m EXCEPT !.reg[Gpr(n)] = x]

A64Effect(w, before) ==
  LET name == A64Mnemonic(w)
      p    == before.reg[pc]
      m    == [before EXCEPT !.reg[pc] = next_pc(p)]
  IN
  CASE name = "add"  -> XWritten(m, w.rd, Sized(w, XOf(m, w.rn) + w.imm))
    [] name = "movz" -> XWritten(m, w.rd, Sized(w, w.imm * 2 ^ (w.hw * HalfBits)))
    [] name = "b"    -> [(IF TopBit(w) THEN XWritten(m, LinkReg, next_pc(p)) ELSE m)
                           EXCEPT !.reg[pc] = A64Target(w, p)]
    [] name = "br"   -> [m EXCEPT !.reg[pc] = XOf(m, w.rn)]
    [] OTHER         -> m
=============================================================================
