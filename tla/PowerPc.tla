------------------------------- MODULE PowerPc -------------------------------
(***************************************************************************)
(* The PowerPC frontend, src/frontends/wii_ppc.rs: what a word decodes to  *)
(* and the ops it is lowered to; and, to compare, what the instruction     *)
(* does to the guest.                                                      *)
(*                                                                         *)
(* A word is the record of its fields: opcd, the register numbers rd, ra,  *)
(* rb (which are bo, bi, sh, crbd, ... in some forms), xo, mb, me, the     *)
(* bits rc (lk) and aa, imm, the low half of the word, and li, its low     *)
(* LiBits.                                                                 *)
(***************************************************************************)
EXTENDS IrMachine

CONSTANTS
  WordBytes,  \* 4
  LiBits      \* 26, the bits of a word behind opcd

SignExtend(x, bits) == Trunc(Signed(Trunc(x, bits), bits), WideBits)

-----------------------------------------------------------------------------
(* decode_word                                                             *)

xo9(w) == w.xo % 512

Mnemonic(w) ==
  CASE w.opcd = 4 /\ w.xo % 32 = 21 -> "ps_add"
    [] w.opcd = 14 -> "addi"
    [] w.opcd = 15 -> "addis"
    [] w.opcd = 16 -> "bc"
    [] w.opcd = 18 -> "b"
    [] w.opcd = 19 /\ w.xo = 16  -> "bclr"
    [] w.opcd = 19 /\ w.xo = 257 -> "crand"
    [] w.opcd = 21 -> "rlwinm"
    [] w.opcd = 24 -> "ori"
    [] w.opcd = 25 -> "oris"
    [] w.opcd = 26 -> "xori"
    [] w.opcd = 28 -> "andi."
    [] w.opcd = 31 /\ xo9(w) = 40  -> "subf"
    [] w.opcd = 31 /\ xo9(w) = 266 -> "add"
    [] w.opcd = 31 /\ w.xo = 28  -> "and"
    [] w.opcd = 31 /\ w.xo = 316 -> "xor"
    [] w.opcd = 31 /\ w.xo = 339 -> "mfspr"
    [] w.opcd = 31 /\ w.xo = 444 -> "or"
    [] w.opcd = 31 /\ w.xo = 467 -> "mtspr"
    [] w.opcd = 32 -> "lwz"
    [] w.opcd = 33 -> "lwzu"
    [] w.opcd = 34 -> "lbz"
    [] w.opcd = 36 -> "stw"
    [] w.opcd = 37 -> "stwu"
    [] w.opcd = 38 -> "stb"
    [] OTHER -> "unknown"

(* Faulty, for the mutation runs: a conditional branch may fall through.   *)
PpcTerminatorUncond(w) == Mnemonic(w) \in {"b", "bclr", "unknown"}

PpcTerminator(w) == Mnemonic(w) \in {"b", "bclr", "bc", "unknown"}

simm(w) == SignExtend(w.imm, HalfBits)

(* The two halves of the field are not swapped back.                       *)
spr_field(w) == w.ra * 32 + w.rb

(* The offset is in a field of so many bits; the low ones are aa and lk.   *)
Target(w, p, field, bits) ==
  LET off == Signed(field - (field % InsnLen), bits)
  IN  IF w.aa THEN Trunc(off, NarrowBits) ELSE Trunc(p + off, WideBits)

li_target(w, p) == Target(w, p, w.li, LiBits)
bd_target(w, p) == Target(w, p, w.imm, HalfBits)

(* The ones from bit mb on and those up to bit me; both, unless the mask   *)
(* wraps around.                                                           *)
mask_mbme(mb, me) ==
  LET start == 2 ^ (NarrowBits - mb) - 1
      end   == 2 ^ NarrowBits - 2 ^ (NarrowBits - 1 - me)
  IN  Alu(IF mb <= me THEN "and" ELSE "or", NarrowBits, start, end)

-----------------------------------------------------------------------------
(* lower.  Each LET names the builder after one more method call.          *)

(* What rc asks for once the result is in gpr n.                           *)
Record(b, w, n) ==
  IF w.rc THEN emit_rc0_from_result(b, b.at[Gpr(n)], FALSE) ELSE b

WriteBack(b, n) == write_reg(b, Gpr(n), Result(b))

(* addi, addis; ori, oris, andi., xori                                     *)
LowerAddImm(b, w, x) ==
  LET r == read_gpr_ra(b, w.ra)
  IN  WriteBack(emit_binary(r, "add", FALSE, GprOrZero(r, w.ra), x), w.rd)

LowerLogicImm(b, w, name, x) ==
  LET r == read_reg(b, Gpr(w.rd))
  IN  WriteBack(emit_binary(r, name, FALSE, r.at[Gpr(w.rd)], x), w.ra)

(* Ops of two registers: the first and second operand, the destination.    *)
LowerAlu(b, w, name, first, second, dst) ==
  LET r == read_reg(b, Gpr(first))
      s == read_reg(r, Gpr(second))
  IN  Record(WriteBack(emit_binary(s, name, FALSE, s.at[Gpr(first)],
                                   s.at[Gpr(second)]), dst), w, dst)

(* The effective address of a D-form load or store.                        *)
LowerEa(b, w) ==
  LET r == read_gpr_ra(b, w.ra)
  IN  emit_binary(r, "add", FALSE, GprOrZero(r, w.ra), simm(w))

LowerLoad(b, w, bytes, update) ==
  LET ea == LowerEa(b, w)
      l  == WriteBack(Define(ea, MemOp("load", bytes, TRUE), <<Result(ea)>>), w.rd)
  IN  IF update THEN write_reg(l, Gpr(w.ra), Result(ea)) ELSE l

LowerStore(b, w, bytes, update) ==
  LET ea == LowerEa(b, w)
      r  == read_reg(ea, Gpr(w.rd))
      s  == Push(r, MemOp("store", bytes, TRUE), <<Result(ea), r.at[Gpr(w.rd)]>>)
  IN  IF update THEN write_reg(s, Gpr(w.ra), Result(ea)) ELSE s

(* Rotated left by rb, then masked.                                        *)
LowerRlwinm(b, w) ==
  LET r    == read_reg(b, Gpr(w.rd))
      v    == r.at[Gpr(w.rd)]
      hi   == emit_binary(r, "shl", FALSE, v, w.rb)
      lo   == emit_binary(hi, "shr", FALSE, v, NarrowBits - w.rb)
      both == emit_binary(lo, "or", FALSE, Result(hi), Result(lo))
      mask == mask_mbme(w.mb, w.me)
      m    == IF w.rb = 0 THEN emit_binary(r, "and", FALSE, v, mask)
              ELSE emit_binary(both, "and", FALSE, Result(both), mask)
  IN  Record(WriteBack(m, w.ra), w, w.ra)

SprReg(spr) ==
  CASE spr = 1 -> xer [] spr = 8 -> lr [] spr = 9 -> ctr [] OTHER -> Named("spr", spr)

LowerMfspr(b, w) ==
  LET s == SprReg(spr_field(w))
      r == read_reg(b, s)
  IN  IF s \in CachedReg THEN write_reg(r, Gpr(w.rd), r.at[s])
      ELSE WriteBack(Define(b, Get(s), <<>>), w.rd)

LowerMtspr(b, w) ==
  LET s == SprReg(spr_field(w))
      r == read_reg(b, Gpr(w.rd))
      v == r.at[Gpr(w.rd)]
  IN  IF s \in CachedReg THEN write_reg(r, s, v) ELSE Push(r, Set(s), <<v>>)

(* The return address, when lk asks for it.                                *)
Link(b, w, p) ==
  LET a == emit_binary(b, "add", FALSE, next_pc(p), 0)
  IN  IF w.rc THEN write_reg(a, lr, Result(a)) ELSE b

LowerBclr(b, w, p) ==
  LET r == read_reg(Link(b, w, p), lr) IN emit_exit_indirect(r, r.at[lr])

BoBit(w, n) == (w.rd \div n) % 2 = 1

(* bo 16: always; bo 8: on a CR bit that is set, otherwise on one that is  *)
(* not.                                                                    *)
LowerBc(b, w, p) ==
  LET l   == Link(b, w, p)
      bit == emit_get_cr_bit(l, w.ra)
      not == emit_binary(bit, "xor", FALSE, Result(bit), 1)
      c   == IF BoBit(w, 8) THEN bit ELSE not
  IN  IF BoBit(w, 16) THEN emit_exit_uncond(l, bd_target(w, p))
      ELSE emit_exit_cond(c, Result(c), bd_target(w, p), next_pc(p))

LowerCrand(b, w) ==
  LET x == emit_get_cr_bit(b, w.ra)
      y == emit_get_cr_bit(x, w.rb)
      v == emit_binary(y, "and", FALSE, Result(x), Result(y))
  IN  emit_set_cr_field(v, w.rd \div 4, Result(v))

LowerPsAdd(b, w) ==
  LET r == read_reg(b, Vec(w.ra))
      s == read_reg(r, Vec(w.rb))
      v == Define(s, [name |-> "vec"], <<s.at[Vec(w.ra)], s.at[Vec(w.rb)]>>)
  IN  write_reg(v, Vec(w.rd), Result(v))

PpcLower(b, w, p) ==
  LET name == Mnemonic(w)
  IN
  CASE name = "addi"  -> LowerAddImm(b, w, simm(w))
    [] name = "addis" -> LowerAddImm(b, w, SignExtend(w.imm * 2 ^ HalfBits, NarrowBits))
    [] name = "ori"   -> LowerLogicImm(b, w, "or", w.imm)
    [] name = "oris"  -> LowerLogicImm(b, w, "or", w.imm * 2 ^ HalfBits)
    [] name = "xori"  -> LowerLogicImm(b, w, "xor", w.imm)
    [] name = "andi." -> LET a == LowerLogicImm(b, w, "and", w.imm)
                         IN  emit_rc0_from_result(a, a.at[Gpr(w.ra)], FALSE)
    [] name = "add"   -> LowerAlu(b, w, "add", w.ra, w.rb, w.rd)
    [] name = "and"   -> LowerAlu(b, w, "and", w.rd, w.rb, w.ra)
    [] name = "or"    -> LowerAlu(b, w, "or", w.rd, w.rb, w.ra)
    [] name = "xor"   -> LowerAlu(b, w, "xor", w.rd, w.rb, w.ra)
    [] name = "subf"  ->  \* rb - ra, but ra is read first
         LET r == read_reg(b, Gpr(w.ra)) IN LowerAlu(r, w, "sub", w.rb, w.ra, w.rd)
    [] name = "lwz"   -> LowerLoad(b, w, WordBytes, FALSE)
    [] name = "lwzu"  -> LowerLoad(b, w, WordBytes, TRUE)
    [] name = "lbz"   -> LowerLoad(b, w, 1, FALSE)
    [] name = "stw"   -> LowerStore(b, w, WordBytes, FALSE)
    [] name = "stwu"  -> LowerStore(b, w, WordBytes, TRUE)
    [] name = "stb"   -> LowerStore(b, w, 1, FALSE)
    [] name = "rlwinm" -> LowerRlwinm(b, w)
    [] name = "mfspr" -> LowerMfspr(b, w)
    [] name = "mtspr" -> LowerMtspr(b, w)
    [] name = "b"     -> emit_exit_uncond(Link(b, w, p), li_target(w, p))
    [] name = "bclr"  -> LowerBclr(b, w, p)
    [] name = "bc"    -> LowerBc(b, w, p)
    [] name = "crand" -> LowerCrand(b, w)
    [] name = "ps_add" -> LowerPsAdd(b, w)
    [] OTHER          -> emit_unimplemented(b)

-----------------------------------------------------------------------------
(* What the instruction does, as far as the code follows the architecture: *)
(* where it does not, the comments say so.  The registers of m before the  *)
(* instruction are m.reg; every value is computed from those.              *)

RegOf(m, n) == m.reg[Gpr(n)]
OrZero(m, n) == IF n = 0 THEN 0 ELSE RegOf(m, n)
Low(x) == Trunc(x, NarrowBits)

(* CR0 after a result: bit 2 for zero and bit 0 for negative, whereas the  *)
(* architecture has LT, GT, EQ, SO from bit 3 down.                        *)
Cr0(m, x) ==
  WithField(m.reg[cr], 0,
            (IF x = 0 THEN 4 ELSE 0) + (IF x >= 2 ^ (NarrowBits - 1) THEN 1 ELSE 0))

(* Gpr n becomes x; with record, CR0 tells of it.                          *)
Written(m, n, x, record) ==
  IF record THEN [m EXCEPT !.reg[Gpr(n)] = x, !.reg[cr] = Cr0(m, x)]
  ELSE [m EXCEPT !.reg[Gpr(n)] = x]

RotatedLeft(x, n) ==
  WithBits(LAMBDA j : j < NarrowBits /\ BitOf(x, (j - n) % NarrowBits) = 1)

(* Bits mb to me, counted from the left and around the end.                *)
InMask(j, mb, me) ==
  LET left == NarrowBits - 1 - j
  IN  /\ j < NarrowBits
      /\ IF mb <= me THEN mb <= left /\ left <= me ELSE left >= mb \/ left <= me

Literal(w) == Signed(w.imm, HalfBits)

Logic(name, x, y) == Alu(name, NarrowBits, Low(x), Low(y))

Loaded(m, w, bytes, update) ==
  LET ea == Low(OrZero(m, w.ra) + Literal(w))
      l  == [m EXCEPT !.reg[Gpr(w.rd)] = LoadBytes(m.mem, ea, bytes, TRUE)]
  IN  IF ~InMap(ea, bytes) THEN Fault(m)
      ELSE IF update THEN [l EXCEPT !.reg[Gpr(w.ra)] = ea] ELSE l

Stored(m, w, bytes, update) ==
  LET ea == Low(OrZero(m, w.ra) + Literal(w))
      s  == [m EXCEPT !.mem = StoreBytes(@, ea, bytes, TRUE, RegOf(m, w.rd))]
  IN  IF ~InMap(ea, bytes) THEN Fault(m)
      ELSE IF update THEN [s EXCEPT !.reg[Gpr(w.ra)] = ea] ELSE s

Jumped(m, w, next, target) ==
  IF w.rc THEN [m EXCEPT !.reg[pc] = target, !.reg[lr] = Low(next)]
  ELSE [m EXCEPT !.reg[pc] = target]

(* A branch on a CR bit; the variants that count CTR down are not told     *)
(* apart from those that do not.                                           *)
Taken(m, w) ==
  BoBit(w, 16) \/ (BitOf(m.reg[cr], HostBit(w.ra)) = 1) = BoBit(w, 8)

(* The pc moves on, and then the instruction does what it does.            *)
PpcEffect(w, before) ==
  LET name == Mnemonic(w)
      p    == before.reg[pc]
      next == next_pc(p)
      m    == [before EXCEPT !.reg[pc] = next]
      high == w.imm * 2 ^ HalfBits
      spr  == SprReg(spr_field(w))
  IN
  CASE name = "addi"  -> Written(m, w.rd, Low(OrZero(m, w.ra) + Literal(w)), FALSE)
    [] name = "addis" -> Written(m, w.rd, Low(OrZero(m, w.ra) + high), FALSE)
    [] name = "ori"   -> Written(m, w.ra, Logic("or", RegOf(m, w.rd), w.imm), FALSE)
    [] name = "oris"  -> Written(m, w.ra, Logic("or", RegOf(m, w.rd), high), FALSE)
    [] name = "xori"  -> Written(m, w.ra, Logic("xor", RegOf(m, w.rd), w.imm), FALSE)
    [] name = "andi." -> Written(m, w.ra, Logic("and", RegOf(m, w.rd), w.imm), TRUE)
    [] name = "add"   -> Written(m, w.rd, Low(RegOf(m, w.ra) + RegOf(m, w.rb)), w.rc)
    [] name = "subf"  -> Written(m, w.rd, Low(RegOf(m, w.rb) - RegOf(m, w.ra)), w.rc)
    [] name \in {"and", "or", "xor"} ->
         Written(m, w.ra, Logic(name, RegOf(m, w.rd), RegOf(m, w.rb)), w.rc)
    [] name = "rlwinm" ->
         LET rot == RotatedLeft(Low(RegOf(m, w.rd)), w.rb)
         IN  Written(m, w.ra, WithBits(LAMBDA j : InMask(j, w.mb, w.me) /\ BitOf(rot, j) = 1),
                    w.rc)
    [] name = "lwz"   -> Loaded(m, w, WordBytes, FALSE)
    [] name = "lwzu"  -> Loaded(m, w, WordBytes, TRUE)
    [] name = "lbz"   -> Loaded(m, w, 1, FALSE)
    [] name = "stw"   -> Stored(m, w, WordBytes, FALSE)
    [] name = "stwu"  -> Stored(m, w, WordBytes, TRUE)
    [] name = "stb"   -> Stored(m, w, 1, FALSE)
         \* special registers that are not kept read as zero
    [] name = "mfspr" ->
         Written(m, w.rd, IF spr \in CachedReg THEN m.reg[spr] ELSE 0, FALSE)
    [] name = "mtspr" ->
         IF spr \in CachedReg THEN [m EXCEPT !.reg[spr] = RegOf(m, w.rd)] ELSE m
    [] name = "b"     -> Jumped(m, w, next, li_target(w, p))
         \* always taken; with lk, to the return address it has just set
    [] name = "bclr"  -> Jumped(m, w, next, IF w.rc THEN Low(next) ELSE m.reg[lr])
    [] name = "bc"    -> Jumped(m, w, next, IF Taken(m, w) THEN bd_target(w, p) ELSE next)
         \* the field of the target gets the result as its lowest bit, the
         \* other three are cleared
    [] name = "crand" ->
         [m EXCEPT !.reg[cr] =
            WithField(@, w.rd \div 4,
                      BitOf(@, HostBit(w.ra)) * BitOf(@, HostBit(w.rb)))]
    [] name = "ps_add" ->
         [m EXCEPT !.reg[Vec(w.rd)] = VecSum(m.reg[Vec(w.ra)], m.reg[Vec(w.rb)])]
    [] OTHER          -> m  \* no instruction: skipped
=============================================================================
