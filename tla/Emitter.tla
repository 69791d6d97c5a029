------------------------------- MODULE Emitter -------------------------------
(***************************************************************************)
(* The x86-64 emitter, jit/emit.cpp, over the allocation that LinearScan   *)
(* computed: what the code of each op does to host registers and spill     *)
(* slots when the block runs.  Code is emitted op by op, each from the op  *)
(* and the allocation alone, and runs straight down to the exit, so an     *)
(* action stands for the code of one op being run.                         *)
(*                                                                         *)
(* A place holds the value of a virtual register, an immediate or Junk: a  *)
(* value the IR does not know.  The result of an op is the value of its    *)
(* destination if the code read the operands the op names, Junk otherwise. *)
(* Arithmetic, widths, byte order and flags are left out.  A slot behind   *)
(* the SpillSlots of CpuState::spill is a place of its own here; in the    *)
(* code it lies over cr, lr, ctr and what follows them.                    *)
(***************************************************************************)
EXTENDS LinearScan

CONSTANTS
  RAX, RCX, RDX,  \* the registers the emitter uses by name
  Imm64,          \* immediates that no ALU instruction encodes
  Junk,
  SpillSlots      \* the length of CpuState::spill

emitKinds ==
  {"binop", "mul", "shift", "load", "store", "setflags", "get", "set",
   "set_cr_field", "branch", "jump", "indirect", "return", "vec", "fma"}

(* How many operands emit_op reads from an op of each kind.  The register  *)
(* number of a GET_ or SET_ intrinsic, the targets of a branch and the     *)
(* field of SET_CR_FIELD are left out.                                     *)
Arity(kind) ==
  CASE kind = "fma" -> 3
    [] kind \in {"binop", "mul", "shift", "store", "setflags", "vec"} -> 2
    [] kind \in {"load", "set", "set_cr_field", "branch", "indirect"} -> 1
    [] OTHER -> 0

HasDst(kind) == kind \in {"binop", "mul", "shift", "load", "get", "vec", "fma"}

(* Blocks as an IrBuilder makes them: each vreg is defined once and used   *)
(* after that.                                                             *)
IsSsa(b) ==
  \A n \in 1..Len(b) :
    /\ b[n].dst # NoReg => \A m \in 1..(n - 1) : b[m].dst # b[n].dst
    /\ \A v \in Operands(b[n]) : \E m \in 1..(n - 1) : b[m].dst = v

(* The registers used by name are among the first four of the pool.        *)
ASSUME RegisterAssumption ==
  /\ RAX # RCX /\ RAX # RDX /\ RCX # RDX
  /\ \A r \in {RAX, RCX, RDX} \cap HostGpr :
       \E j \in 1..Len(HostGprs) : j <= 4 /\ HostGprs[j] = r

ASSUME EmitAssumption ==
  /\ SpillSlots \in Nat
  /\ Kind = emitKinds
  /\ Imm64 \subseteq Imm
  /\ Junk \notin VReg \cup Imm
  /\ \A b \in Blocks :
       /\ IsSsa(b)
       /\ \A n \in 1..Len(b) :
            /\ Len(b[n].args) = Arity(b[n].kind)
            /\ b[n].dst # NoReg <=> HasDst(b[n].kind)

VARIABLES
  host,   \* what registers, spill slots and the two parking slots hold
  at,     \* the op whose code runs next
  seen    \* for each op that has run, the operands its code read

emitVars == <<host, at, seen>>

-----------------------------------------------------------------------------
(* The tables the code of an op is made from.                              *)

(* lookup(): a vreg without entry is read as RAX.                          *)
Loc(v) == IF v \in DOMAIN map THEN map[v] ELSE Reg(RAX)

(* Faulty, for the mutation runs: the destination may be the scratch.      *)
ScratchRax(a) == RAX

scratch_not(a) == IF a = RAX THEN RCX ELSE RAX

InReg(op) == op.dst # NoReg /\ Loc(op.dst).kind = "Reg"

dest_reg(op) == IF InReg(op) THEN Loc(op.dst).gpr ELSE RAX

-----------------------------------------------------------------------------
(* Runs of instructions, as functions of what the places hold.             *)

(* CpuState::jit_tmp0, jit_tmp1                                            *)
Tmp(w) == [kind |-> "Tmp", slot |-> w]

Get(h, l) == IF l \in DOMAIN h THEN h[l] ELSE Junk

Put(h, l, x) == [p \in DOMAIN h \cup {l} |-> IF p = l THEN x ELSE h[p]]

Move(h, from, to) == Put(h, to, Get(h, from))

park(h, r, w) == Move(h, Reg(r), Tmp(w))

(* Faulty: the parked register is not restored.                            *)
LeaveParked(h, r, w) == h

unpark(h, r, w) == Move(h, Tmp(w), Reg(r))

materialize(h, x, r) ==
  IF x \in Imm THEN Put(h, Reg(r), x) ELSE Move(h, Loc(x), Reg(r))

commit_dst(h, op, r) == IF op.dst = NoReg THEN h ELSE Move(h, Reg(r), Loc(op.dst))

(* The value an instruction leaves for op after reading these operands.    *)
Result(op, read) == IF read = op.args THEN op.dst ELSE Junk

-----------------------------------------------------------------------------
EmitInit ==
  /\ Init
  /\ host = EmptyMap
  /\ at = 1
  /\ seen = <<>>

(* The allocator runs first.                                               *)
Allocate == Next /\ UNCHANGED emitVars

Runs(kinds) == pc = "done" /\ at <= Len(block) /\ block[at].kind \in kinds

(* The op at `at` leaves h, having read these operands.                    *)
Retire(h, read) ==
  /\ host' = h
  /\ at' = at + 1
  /\ seen' = Append(seen, read)
  /\ UNCHANGED vars

(* The code of an exit ends with a jump to the epilogue.                   *)
Leave(h, read) ==
  /\ host' = h
  /\ at' = Len(block) + 1
  /\ seen' = Append(seen, read)
  /\ UNCHANGED vars

(* Op in place on the destination register, the second operand in a        *)
(* scratch register that is parked around it.                              *)
ByScratch(op) ==
  LET d    == dest_reg(op)
      s    == scratch_not(d)
      h    == materialize(park(materialize(host, op.args[1], d), s, 0), op.args[2], s)
      read == <<Get(h, Reg(d)), Get(h, Reg(s))>>
  IN  Retire(commit_dst(unpark(Put(h, Reg(d), Result(op, read)), s, 0), op, d), read)

(* Op in place with the immediate in the instruction.                      *)
ByImmediate(op) ==
  LET d    == dest_reg(op)
      h    == materialize(host, op.args[1], d)
      read == <<Get(h, Reg(d)), op.args[2]>>
  IN  Retire(commit_dst(Put(h, Reg(d), Result(op, read)), op, d), read)

Binop ==
  /\ Runs({"binop"})
  /\ LET op == block[at]
     IN  IF op.args[2] \in Imm \ Imm64 THEN ByImmediate(op) ELSE ByScratch(op)

Mul == Runs({"mul"}) /\ ByScratch(block[at])

(* A shift by a register needs the amount in CL: RCX is parked, or, when   *)
(* it is the destination, its value is shifted in a parked RAX.            *)
ByCl(op) ==
  LET d    == dest_reg(op)
      work == IF d = RCX THEN RAX ELSE d
      h1   == park(materialize(host, op.args[1], d), RCX, 0)
      h2   == IF d = RCX THEN Move(park(h1, RAX, 1), Reg(RCX), Reg(RAX)) ELSE h1
      h3   == materialize(h2, op.args[2], RCX)
      read == <<Get(h3, Reg(work)), Get(h3, Reg(RCX))>>
      h4   == Put(h3, Reg(d), Result(op, read))
      h5   == IF d = RCX THEN unpark(h4, RAX, 1) ELSE unpark(h4, RCX, 0)
  IN  Retire(commit_dst(h5, op, d), read)

Shift ==
  /\ Runs({"shift"})
  /\ LET op == block[at]
     IN  IF op.args[2] \in Imm THEN ByImmediate(op) ELSE ByCl(op)

(* The base of guest memory goes through a parked scratch register.        *)
Load ==
  /\ Runs({"load"})
  /\ LET op   == block[at]
         d    == dest_reg(op)
         s    == scratch_not(d)
         h1   == materialize(host, op.args[1], d)
         read == <<Get(h1, Reg(d))>>
         h2   == unpark(Put(park(h1, s, 0), Reg(s), Junk), s, 0)
     IN  Retire(commit_dst(Put(h2, Reg(d), Result(op, read)), op, d), read)

(* Stores and flags compute in RAX, RCX and RDX.                           *)
StoreOrSetFlags ==
  /\ Runs({"store", "setflags"})
  /\ LET op   == block[at]
         h    == materialize(materialize(host, op.args[1], RAX), op.args[2], RCX)
         read == <<Get(h, Reg(RAX)), Get(h, Reg(RCX))>>
     IN  Retire(Put(Put(Put(h, Reg(RAX), Junk), Reg(RCX), Junk), Reg(RDX), Junk), read)

(* GET_ intrinsics and ReadFlag read the CPU state, and any intrinsic the  *)
(* emitter does not know is 0.                                             *)
GetState ==
  /\ Runs({"get"})
  /\ LET op == block[at]
         d  == dest_reg(op)
     IN  Retire(commit_dst(Put(host, Reg(d), Result(op, <<>>)), op, d), <<>>)

SetState ==
  /\ Runs({"set"})
  /\ LET h == materialize(host, block[at].args[1], RAX)
     IN  Retire(h, <<Get(h, Reg(RAX))>>)

SetCrField ==
  /\ Runs({"set_cr_field"})
  /\ LET h == materialize(host, block[at].args[1], RCX)
     IN  Retire(Put(Put(h, Reg(RAX), Junk), Reg(RCX), Junk), <<Get(h, Reg(RCX))>>)

(* A condition or a target in RAX, then the new pc.                        *)
Exit ==
  /\ Runs({"branch", "indirect"})
  /\ LET h == materialize(host, block[at].args[1], RAX)
     IN  Leave(Put(h, Reg(RAX), Junk), <<Get(h, Reg(RAX))>>)

PlainExit ==
  /\ Runs({"jump", "return"})
  /\ Leave(Put(host, Reg(RAX), Junk), <<>>)

(* The product or sum of two operands, by way of xmm registers.            *)
VecHost(op) == materialize(materialize(host, op.args[1], dest_reg(op)), op.args[2], RCX)

VecRead(op) == <<Get(VecHost(op), Reg(dest_reg(op))), Get(VecHost(op), Reg(RCX))>>

Vec ==
  /\ Runs({"vec"})
  /\ LET op == block[at]
         d  == dest_reg(op)
     IN  Retire(commit_dst(Put(VecHost(op), Reg(d), Result(op, VecRead(op))), op, d),
                VecRead(op))

(* The product is committed to the destination, and the sum after it.  The *)
(* product has a value of its own only while both operands were right.     *)
Fma ==
  /\ Runs({"fma"})
  /\ LET op   == block[at]
         d    == dest_reg(op)
         prod == IF VecRead(op) = <<op.args[1], op.args[2]>> THEN op.dst ELSE Junk
         h    == materialize(commit_dst(Put(VecHost(op), Reg(d), prod), op, d),
                             op.args[3], RCX)
         read == Append(VecRead(op), Get(h, Reg(RCX)))
         sum  == IF Get(h, Reg(d)) = prod THEN Result(op, read) ELSE Junk
     IN  Retire(commit_dst(Put(h, Reg(d), sum), op, d), read)

RunOp ==
  \/ Binop \/ Mul \/ Shift \/ Load \/ StoreOrSetFlags
  \/ GetState \/ SetState \/ SetCrField
  \/ Exit \/ PlainExit \/ Vec \/ Fma

EmitNext == Allocate \/ RunOp

EmitSpec == EmitInit /\ [][EmitNext]_<<vars, emitVars>>

-----------------------------------------------------------------------------
(* A shift in RCX by an amount in RAX: the value to shift is moved over it. *)
AmountLost(op) ==
  /\ op.kind = "shift" /\ op.args[2] \notin Imm
  /\ dest_reg(op) = RCX /\ Loc(op.args[2]) = Reg(RAX)

(* The registers that the code of op changes and does not restore, the one *)
(* it returns its result in apart, or changes before it has read them.     *)
Clobbered(op) ==
  CASE op.kind \in {"store", "setflags"} -> {RAX, RCX, RDX}
    [] op.kind = "set_cr_field" -> {RAX, RCX}
    [] op.kind \in {"set", "branch", "indirect", "jump", "return"} -> {RAX}
    [] op.kind \in {"vec", "fma"} -> IF InReg(op) THEN {RCX} ELSE {RAX, RCX}
    [] OTHER -> IF ~InReg(op) \/ AmountLost(op) THEN {RAX} ELSE {}

(* No value is live across an op, or into or out of it, in a register that *)
(* the code of the op clobbers.                                            *)
ClobberFree ==
  \A n \in 1..Len(block) :
    \A v \in LiveAt(n) : Loc(v).kind = "Reg" => Loc(v).gpr \notin Clobbered(block[n])

(* Every op that has run read the values the IR names.                     *)
OperandsIntact == \A n \in 1..Len(seen) : seen[n] = block[n].args

(* Parking, spilling and the reuse of registers lose nothing: code whose   *)
(* clobbered registers hold no live value computes on the operands the IR  *)
(* names.                                                                  *)
ClobberFreeIsRight == pc = "done" /\ ClobberFree => OperandsIntact

(* At least four registers to spare at every op: the allocator then leaves *)
(* alone the first four of its pool, RAX, RBX, RCX and RDX in the code.    *)
LowPressure == \A n \in 1..Len(block) : Cardinality(LiveAt(n)) + 4 <= Len(HostGprs)

(* A block in which at most nine values are live at once (the pool has     *)
(* thirteen registers) runs right, whatever its ops.                       *)
LowPressureIsRight == LowPressure => OperandsIntact

(* Every variable has its type.                                            *)
EmitTypeOK ==
  /\ at \in 1..(Len(block) + 1)
  /\ seen \in Seq(Seq(VReg \cup Imm \cup {Junk}))
  /\ Len(seen) < at
  /\ \A l \in DOMAIN host :
       /\ host[l] \in VReg \cup Imm \cup {Junk}
       /\ l \in Location \cup {Reg(r) : r \in {RAX, RCX, RDX}} \cup {Tmp(0), Tmp(1)}

(* The vregs that the block names.                                         *)
Named == UNION {Touched(block[n]) : n \in 1..Len(block)}

(* regalloc.rs never compares next_spill with the 1024 bytes it hands out  *)
(* slots of.  Nothing is written behind them by the code of a block that   *)
(* names no more vregs than the pool has registers and the area slots.     *)
SpillAreaIsEnough ==
  Cardinality(Named) <= Len(HostGprs) + SpillSlots =>
    \A l \in DOMAIN host :
      l.kind = "Spill" => l.offset + SlotBytes <= SlotBytes * SpillSlots

(* What the proof carries from op to op: the values still to be read are   *)
(* where the allocation says.                                              *)
InPlace ==
  pc = "done" /\ ClobberFree =>
    \A v \in VReg :
      (\E m \in 1..(at - 1), n \in at..Len(block) :
         block[m].dst = v /\ v \in Operands(block[n]))
      => Get(host, Loc(v)) = v
=============================================================================
