---------------------------- MODULE DesignPasses ----------------------------
(***************************************************************************)
(* The passes of the design, src/architecture_fixed.rs: constant_fold with *)
(* the widths of the ops, redundant_load_elimination and                   *)
(* dead_flag_elimination, each a function of the ops of a block.           *)
(***************************************************************************)
EXTENDS Ir, GuestBytes, SequencesExt

(* enum Width but W128: whole bytes, and a power of two, to which 2 ^ w is *)
(* a multiple of w.                                                        *)
designWidth == {w \in 1..WideBits : w % ByteBits = 0 /\ 2 ^ w % w = 0}

designKind ==
  [name : aluNames \cup {"setflags"}, bits : designWidth]
    \cup [name : {"load"}, bits : designWidth, signed : BOOLEAN, big : BOOLEAN]
    \cup [name : {"store"}, bits : designWidth, big : BOOLEAN]
    \cup [name : {"readflag"}, flag : {"zero", "negative"}]
    \cup [name : {"branch", "indirect", "call", "return"}]
    \cup [name : {"intrinsic"},
          effects : {"Pure", "ReadsMem", "WritesMem", "ReadsAndWritesMem", "Volatile"}]

(* enum IrOp, SSA-like: an op has the operands and the result of its kind, *)
(* and a register that no op before it defines.                            *)
SingleAssignment(b) ==
  \A n \in 1..Len(b) :
    /\ b[n] \in Op
    /\ b[n].kind.name \in effectNames => b[n].dst = NoReg
    /\ b[n].kind.name \in aluNames \cup {"load", "readflag"} => b[n].dst # NoReg
    /\ b[n].kind.name \in aluNames \cup {"setflags", "store"} => Len(b[n].args) = 2
    /\ b[n].kind.name = "load" => Len(b[n].args) = 1
    /\ b[n].dst # NoReg => \A j \in 1..(n - 1) : b[j].dst # b[n].dst

(* HashMap::insert                                                         *)
Insert(f, key, value) ==
  [x \in DOMAIN f \cup {key} |-> IF x = key THEN value ELSE f[x]]

(* HashMap::remove                                                         *)
Removed(f, key) == [x \in DOMAIN f \ {key} |-> f[x]]

(* A loop over the elements of a sequence, from the first to the last.     *)
Sweep(Step(_, _), start, seq) ==
  LET after[n \in 0..Len(seq)] ==
        IF n = 0 THEN start ELSE LET s == after[n - 1] IN Step(s, seq[n])
  IN  after[Len(seq)]

-----------------------------------------------------------------------------
(* constant_fold                                                           *)

mask_to_width(x, bits) == Trunc(x, bits)

(* Sign-extended to the width of an i64.                                   *)
sign_extend_width(x, bits) ==
  Trunc(Signed(mask_to_width(x, bits), bits), WideBits)

(* The literals are 64 bits, whatever the width of the op.                 *)
fold_binary(name, bits, x, y) ==
  LET count == y % bits
  IN  mask_to_width(
        IF name = "sar" THEN Alu(name, WideBits, sign_extend_width(x, bits), count)
        ELSE Alu(name, WideBits, x, IF name \in {"shl", "shr"} THEN count ELSE y),
        bits)

resolve_const(a, constants) == IF a \in DOMAIN constants THEN constants[a] ELSE a

WithArgs(op, Resolve(_)) == [op EXCEPT !.args = [j \in DOMAIN @ |-> Resolve(@[j])]]

(* One op: what is known of its operands, then of its result.  A folded op *)
(* keeps its kind; its operands become the value and 0.  Of the result of  *)
(* another nothing is known any more.                                      *)
FoldStep(s, op) ==
  LET known == WithArgs(op, LAMBDA a : resolve_const(a, s.constants))
      x     == fold_binary(op.kind.name, op.kind.bits, known.args[1], known.args[2])
  IN  IF op.kind.name \in aluNames /\ {known.args[1], known.args[2]} \subseteq Imm
      THEN [ops       |-> Append(s.ops, [known EXCEPT !.args = <<x, 0>>]),
            constants |-> Insert(s.constants, op.dst, x)]
      ELSE [ops |-> Append(s.ops, known), constants |-> Removed(s.constants, op.dst)]

constant_fold(ops) ==
  Sweep(FoldStep, [ops |-> <<>>, constants |-> <<>>], ops).ops

-----------------------------------------------------------------------------
(* redundant_load_elimination                                              *)

(* Up to eight substitutions are followed; only a literal at their end is  *)
(* written back to the operand.                                            *)
resolve_substitution(a, subst) ==
  LET hop[n \in 0..8] ==
        IF n = 0 THEN a
        ELSE LET v == hop[n - 1] IN IF v \in DOMAIN subst THEN subst[v] ELSE v
      x == hop[8]
  IN  IF x \in Imm THEN x ELSE a

(* The bytes at an address; none for an access up to the last address.     *)
MemRange(addr, bits) ==
  LET bytes == bits \div ByteBits
  IN  IF addr + bytes < 2 ^ WideBits THEN addr..(addr + bytes - 1) ELSE {}

(* MemRange of an access, {} also where the address is not a literal.      *)
RangeOf(op) == IF op.args[1] \in Imm THEN MemRange(op.args[1], op.kind.bits) ELSE {}

(* A cached access: the kind of the op, its bytes and the value there.     *)
Fact(op, value) == [kind |-> op.kind, range |-> RangeOf(op), value |-> value]

(* Faulty: only a store to the same bytes ends what is known of them.      *)
ApartOrInside(facts, range) == {f \in facts : f.range # range}

Apart(facts, range) == {f \in facts : f.range \cap range = {}}

(* The value a store of a literal leaves for a load of the same bytes.     *)
Forwarded(x, kind) ==
  IF kind.signed THEN sign_extend_width(x, kind.bits) ELSE mask_to_width(x, kind.bits)

LoadStep(s, op) ==
  LET range  == RangeOf(op)
      loaded == {f \in s.loads : f.kind = op.kind /\ f.range = range}
      stored == {f \in s.stores : /\ f.range = range
                                  /\ f.kind.bits = op.kind.bits
                                  /\ f.kind.big = op.kind.big
                                  /\ f.value \in Imm}
      Replace(x) == [s EXCEPT !.subst = Insert(@, op.dst, x)]
  IN  IF range = {} THEN [s EXCEPT !.ops = Append(@, op)]
      ELSE IF loaded # {} THEN Replace((CHOOSE f \in loaded : TRUE).value)
      ELSE IF stored # {}
      THEN LET x == Forwarded((CHOOSE f \in stored : TRUE).value, op.kind)
           IN  [Replace(x) EXCEPT !.loads = @ \cup {Fact(op, x)}]
      ELSE [s EXCEPT !.loads = Apart(@, range) \cup {Fact(op, op.dst)},
                     !.ops = Append(@, op)]

Forget(s, op) == [s EXCEPT !.loads = {}, !.stores = {}, !.ops = Append(@, op)]

StoreStep(s, op) ==
  LET range == RangeOf(op)
  IN  IF range = {} THEN Forget(s, op)
      ELSE [s EXCEPT !.loads = Apart(@, range),
                     !.stores = Apart(@, range) \cup {Fact(op, op.args[2])},
                     !.ops = Append(@, op)]

(* Ops behind which nothing is known of memory.                            *)
ForgetsMemory(op) ==
  \/ op.kind.name \in {"branch", "indirect", "call", "return"}
  \/ op.kind.name = "intrinsic" /\ op.kind.effects \notin {"Pure", "ReadsMem"}

EliminateStep(s, op) ==
  LET known == WithArgs(op, LAMBDA a : resolve_substitution(a, s.subst))
  IN  CASE op.kind.name = "load"  -> LoadStep(s, known)
        [] op.kind.name = "store" -> StoreStep(s, known)
        [] ForgetsMemory(op)      -> Forget(s, known)
        [] OTHER                  -> [s EXCEPT !.ops = Append(@, known)]

redundant_load_elimination(ops) ==
  Sweep(EliminateStep,
        [ops |-> <<>>, loads |-> {}, stores |-> {}, subst |-> <<>>], ops).ops

-----------------------------------------------------------------------------
(* dead_flag_elimination                                                   *)

(* A flag is read before the next SetFlags.                                *)
Observed(ops, n) ==
  \E r \in (n + 1)..Len(ops) :
    /\ ops[r].kind.name = "readflag"
    /\ \A between \in (n + 1)..(r - 1) : ops[between].kind.name # "setflags"

Keeps(ops, n) == ops[n].kind.name = "setflags" => Observed(ops, n)

dead_flag_elimination(ops) ==
  Sweep(LAMBDA out, n : IF Keeps(ops, n) THEN Append(out, ops[n]) ELSE out,
        <<>>, [n \in DOMAIN ops |-> n])

run_all(ops) ==
  dead_flag_elimination(redundant_load_elimination(constant_fold(ops)))
=============================================================================
