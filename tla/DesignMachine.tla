---------------------------- MODULE DesignMachine ----------------------------
(***************************************************************************)
(* What a block of the design does when it runs.  jit_emit_block is not    *)
(* written for its ops; this is what a user of the IR takes them to mean,  *)
(* and what the emitter of src/jit/emit.cpp does for the ops it has.       *)
(***************************************************************************)
EXTENDS DesignPasses

(* A state has the guest memory, two flags, env with the values of the     *)
(* virtual registers that have one, the trace of effects other than on     *)
(* memory, and whether the block has been left.                            *)
InMemory(a, bytes) == a + bytes <= 2 ^ WideBits

(* Some change of the memory, a different one from each different memory.  *)
Touch(mem) == [c \in DOMAIN mem |-> (mem[c] + 1) % 2 ^ ByteBits]

ValueOf(a, env) == IF a \in Imm THEN a ELSE IF a \in DOMAIN env THEN env[a] ELSE 0

Values(op, m) == [j \in DOMAIN op.args |-> ValueOf(op.args[j], m.env)]

SumOf(xs) == MapThenSumSet(LAMBDA j : xs[j], DOMAIN xs)

(* What an op with operands xs does to m, its result apart.                *)
Effect(kind, xs, m) ==
  LET did   == [m EXCEPT !.trace = Append(@, [name |-> kind.name, values |-> xs])]
      bytes == kind.bits \div ByteBits
      flags == Alu("and", kind.bits, Trunc(xs[1], kind.bits), Trunc(xs[2], kind.bits))
  IN
  CASE kind.name = "setflags" ->
         [m EXCEPT !.zero = IF flags = 0 THEN 1 ELSE 0,
                   !.negative = BitOf(flags, kind.bits - 1)]
    [] kind.name \in {"load", "store"} /\ ~InMemory(xs[1], bytes) ->
         [m EXCEPT !.left = TRUE]
    [] kind.name = "store" /\ InMemory(xs[1], bytes) ->
         [m EXCEPT !.mem = StoreBytes(@, xs[1], bytes, kind.big, xs[2])]
    [] \/ kind.name = "call"
       \/ kind.name = "intrinsic" /\ kind.effects \notin {"Pure", "ReadsMem"} ->
         [did EXCEPT !.mem = Touch(@)]
    [] kind.name \in {"branch", "indirect", "return"} -> [did EXCEPT !.left = TRUE]
    [] OTHER -> m

(* Its result, if it has one.                                              *)
Result(kind, xs, m) ==
  CASE kind.name \in aluNames ->
         Alu(kind.name, kind.bits, Trunc(xs[1], kind.bits), Trunc(xs[2], kind.bits))
    [] kind.name = "readflag" -> m[kind.flag]
    [] kind.name = "load" ->
         Forwarded(LoadBytes(m.mem, xs[1], kind.bits \div ByteBits, kind.big), kind)
    [] kind.name = "intrinsic" /\ kind.effects = "Pure" -> Trunc(SumOf(xs), WideBits)
    [] kind.name = "intrinsic" /\ kind.effects # "Pure" ->
         Trunc(SumOf(xs) + m.mem[0], WideBits)

(* The code of one op on m.                                                *)
DesignExec(op, m) ==
  LET xs   == Values(op, m)
      done == Effect(op.kind, xs, m)
  IN  IF op.dst = NoReg \/ done.left THEN done
      ELSE [done EXCEPT !.env = Insert(@, op.dst, Result(op.kind, xs, m))]

DesignRun(ops, m) ==
  Sweep(LAMBDA s, op : IF s.left THEN s ELSE DesignExec(op, s), m, ops)

(* What is left of a block when it has run: its virtual registers are not, *)
(* nor the flags, which the passes take for dead at the end of a block.    *)
Outcome(m) == [mem |-> m.mem, trace |-> m.trace, left |-> m.left]
=============================================================================
