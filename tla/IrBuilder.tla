------------------------------ MODULE IrBuilder ------------------------------
(***************************************************************************)
(* IrBuilder of src/core/ir.rs, with which the frontends write a block: a  *)
(* guest register is read from the CPU state on its first use, lives in a  *)
(* virtual register from then on, and goes back to the CPU state in the    *)
(* flush before the exit.                                                  *)
(*                                                                         *)
(* A builder is a record of the ops so far, the number of virtual          *)
(* registers handed out and the one that holds each guest register; each   *)
(* method is a function of it.  Guest registers and the other things that  *)
(* intrinsics get and set are records of a name and a number.              *)
(***************************************************************************)
EXTENDS Ir, Arith, SequencesExt, FiniteSets

CONSTANTS
  VRegAt(_),  \* VReg(n)
  Indices,    \* the gprs, fprs and vector registers, 0..31 in the code
  InsnLen,    \* bytes of an instruction, 4
  HalfBits    \* 16, the literals of instructions

ASSUME IndicesAssumption == IsFiniteSet(Indices) /\ Indices = 0..(Cardinality(Indices) - 1)

Named(id, n) == [id |-> id, n |-> n]

Gpr(n) == Named("gpr", n)
Fpr(n) == Named("fpr", n)
Vec(n) == Named("vec", n)
cr  == Named("cr", 0)
lr  == Named("lr", 0)
ctr == Named("ctr", 0)
xer == Named("xer", 0)
pc  == Named("pc", 0)

(* The registers that IrBuilder caches, and the order in which             *)
(* flush_guest_state writes them.                                          *)
CachedReg ==
  {Named(id, n) : id \in {"gpr", "fpr", "vec"}, n \in Indices} \cup {cr, lr, ctr, xer}

FlushOrder ==
  LET last == 3 * Cardinality(Indices)
  IN  [j \in 1..(last + 4) |->
         IF j > last THEN <<cr, lr, ctr, xer>>[j - last]
         ELSE Named(<<"gpr", "fpr", "vec">>[1 + ((j - 1) % 3)], (j - 1) \div 3)]

AluOp(name, wide) == [name |-> name, wide |-> wide]
MemOp(name, bytes, big) == [name |-> name, bytes |-> bytes, big |-> big]
Get(r) == [name |-> "get", reg |-> r]
Set(r) == [name |-> "set", reg |-> r]

(* Faulty, for the mutation runs: the pc does not wrap.                    *)
NextPcGrows(current) == current + InsnLen

next_pc(current) == Trunc(current + InsnLen, WideBits)

-----------------------------------------------------------------------------
new_block == [ops |-> <<>>, next |-> 0, at |-> [r \in CachedReg |-> NoReg]]

PushOp(b, kind, dst, args) ==
  [b EXCEPT !.ops = Append(@, [kind |-> kind, dst |-> dst, args |-> args])]

(* push() of an op without result, and of one with a new_vreg().           *)
Push(b, kind, args) == PushOp(b, kind, NoReg, args)

(* Faulty: the counter stays where it is.                                  *)
DefineSame(b, kind, args) == PushOp(b, kind, VRegAt(b.next), args)

Define(b, kind, args) ==
  [PushOp(b, kind, VRegAt(b.next), args) EXCEPT !.next = @ + 1]

(* The vreg that the method just called returns.                           *)
Result(b) == Last(b.ops).dst

emit_binary(b, name, wide, x, y) == Define(b, AluOp(name, wide), <<x, y>>)

(* Faulty: a register is read for each use, even after it was written.     *)
ReadAgain(b, r) ==
  LET d == Define(b, Get(r), <<>>) IN [d EXCEPT !.at[r] = Result(d)]

(* read_gpr, read_fpr, read_vec, read_cr, read_lr, read_ctr, read_xer; the *)
(* vreg returned is then b.at[r].                                          *)
read_reg(b, r) ==
  IF b.at[r] # NoReg THEN b
  ELSE LET d == Define(b, Get(r), <<>>) IN [d EXCEPT !.at[r] = Result(d)]

write_reg(b, r, v) == [b EXCEPT !.at[r] = v]

(* read_gpr_ra, and the operand it returns.                                *)
read_gpr_ra(b, ra) == IF ra = 0 THEN b ELSE read_reg(b, Gpr(ra))
GprOrZero(b, ra) == IF ra = 0 THEN 0 ELSE b.at[Gpr(ra)]

emit_get_cr_bit(b, bit) == Define(b, Get(Named("crbit", bit)), <<>>)

(* The CPU state's CR is changed behind the vreg that may hold it.         *)
emit_set_cr_field(b, field, v) ==
  write_reg(Push(b, Set(Named("crfield", field)), <<v>>), cr, NoReg)

(* The zero flag as bit 2 and the sign flag as bit 0 of field 0.           *)
emit_rc0_from_result(b, result, wide) ==
  LET f  == Push(b, [name |-> "setflags", wide |-> wide],
                 <<result, 2 ^ WideBits - 1>>)
      z  == Define(f, [name |-> "readflag", flag |-> "zero"], <<>>)
      n  == Define(z, [name |-> "readflag", flag |-> "negative"], <<>>)
      s  == emit_binary(n, "shl", FALSE, Result(z), 2)
      o  == emit_binary(s, "or", FALSE, Result(s), Result(n))
  IN  emit_set_cr_field(o, 0, Result(o))

(* The SET_ of each of the registers that are in vregs, in their order.    *)
Flushed(b, regs) ==
  LET held   == {j \in DOMAIN regs : b.at[regs[j]] # NoReg}
      reg(k) == regs[CHOOSE j \in held : Cardinality({i \in held : i <= j}) = k]
  IN  [b EXCEPT !.ops = @ \o
         [k \in 1..Cardinality(held) |->
            [kind |-> Set(reg(k)), dst |-> NoReg, args |-> <<b.at[reg(k)]>>]]]

(* Faulty: the link register is forgotten.                                 *)
FlushButLink(b) == Flushed(b, SelectSeq(FlushOrder, LAMBDA r : r # lr))

flush_guest_state(b) == Flushed(b, FlushOrder)

emit_set_pc(b, x) == Push(b, Set(pc), <<x>>)

-----------------------------------------------------------------------------
(* The ends of a block.                                                    *)

Branch(taken, fall) == [name |-> "branch", taken |-> taken, fall |-> fall]

emit_exit_uncond(b, target) ==
  Push(emit_set_pc(flush_guest_state(b), target), Branch(target, target), <<>>)

(* The branch itself sets the pc.                                          *)
emit_exit_cond(b, cond, taken, fall) ==
  Push(flush_guest_state(b), Branch(taken, fall), <<cond>>)

emit_exit_indirect(b, target) ==
  Push(emit_set_pc(flush_guest_state(b), target), [name |-> "indirect"], <<target>>)

(* The end that translate_block_at gives to a block without one.           *)
ExitTo(b, cursor) ==
  Push(emit_set_pc(flush_guest_state(b), cursor), [name |-> "return"], <<>>)

(* An intrinsic that the emitter generates no code for.                    *)
emit_unimplemented(b) == Push(b, Set(Named("unimplemented", 0)), <<>>)

is_control_flow(op) == op.kind.name \in {"branch", "indirect", "call", "return"}
=============================================================================
