---------------------------------- MODULE Ir ----------------------------------
(***************************************************************************)
(* The ops of an IR block, src/core/ir.rs: what kind an op is, the virtual *)
(* register it defines and the operands it reads, each a virtual register  *)
(* or an immediate.                                                        *)
(***************************************************************************)
EXTENDS Naturals, Sequences

CONSTANTS
  VReg,    \* virtual registers
  NoReg,   \* the destination of an op without one
  Imm,     \* immediates
  Kind     \* what an op does, as far as the extending module tells ops apart

ASSUME NoRegAssumption == NoReg \notin VReg

ASSUME ImmAssumption == Imm \cap VReg = {}

Op == [kind : Kind, dst : VReg \cup {NoReg}, args : Seq(VReg \cup Imm)]

(* The vregs among IrOp::dst() and IrOp::operands().                       *)
Operands(op) == {v \in VReg : \E j \in DOMAIN op.args : op.args[j] = v}

(* Faulty: a missing destination is taken for a register.                  *)
TouchedToo(op) == {op.dst} \cup Operands(op)

Touched(op) == ({op.dst} \ {NoReg}) \cup Operands(op)

aluNames == {"add", "sub", "and", "or", "xor", "mul", "shl", "shr", "sar"}

(* Removed if unused; the value is not the pass's to compute.              *)
readNames == {"load", "readflag", "vec", "fma", "get"}

(* Never removed.                                                          *)
effectNames == {"store", "setflags", "branch", "indirect", "call", "return", "set"}

(* Blocks as an IrBuilder makes them: a vreg is defined once, before its   *)
(* uses, and what has a result is what may be removed.                     *)
WellFormed(b) ==
  \A n \in 1..Len(b) :
    /\ b[n].dst = NoReg <=> b[n].kind.name \in effectNames
    /\ b[n].kind.name \in aluNames => Len(b[n].args) = 2
    /\ b[n].dst # NoReg => \A m \in 1..(n - 1) : b[m].dst # b[n].dst
    /\ \A v \in Operands(b[n]) : \E m \in 1..(n - 1) : b[m].dst = v
=============================================================================
