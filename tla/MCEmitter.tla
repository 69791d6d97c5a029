------------------------------ MODULE MCEmitter ------------------------------
(***************************************************************************)
(* Instances of Emitter.  Blocks define two values from the CPU state and  *)
(* go on with two ops of any kind and operands; an immediate is only the   *)
(* second operand of an op with a result, or what a SET_ stores.           *)
(***************************************************************************)
EXTENDS Emitter

CONSTANTS v1, v2, v3, v4, v5, RBX, R8, R9, i32, i64

MCVReg == {v1, v2, v3, v4, v5}
MCImm == {i32, i64}
MCImm64 == {i64}
MCKind == emitKinds

MCVRegSeq == <<v1, v2, v3, v4, v5>>

(* The operands an op of this kind may have over the defined values.       *)
ArgsOver(kind, defined) ==
  CASE kind \in {"binop", "mul", "shift"} -> {<<a, b>> : a \in defined, b \in defined \cup Imm}
    [] kind = "set" -> {<<a>> : a \in defined \cup {i32}}
    [] Arity(kind) = 0 -> {<<>>}
    [] Arity(kind) = 1 -> {<<a>> : a \in defined}
    [] Arity(kind) = 2 -> {<<a, b>> : a \in defined, b \in defined}
    [] Arity(kind) = 3 -> {<<a, b, c>> : a \in defined, b \in defined, c \in defined}

DefinedBy(b) == {b[n].dst : n \in 1..Len(b)} \ {NoReg}

Extended(b, kinds) ==
  UNION {{Append(b, [kind |-> t,
                     dst |-> IF HasDst(t) THEN MCVRegSeq[Len(b) + 1] ELSE NoReg,
                     args |-> a]) : a \in ArgsOver(t, DefinedBy(b))}
           : t \in kinds}

Exits == {"branch", "jump", "indirect", "return"}

(* Three values, the third from the CPU state or from memory, an op of any *)
(* kind over them, an exit or a load from one of the four.                 *)
MCLongBlocks ==
  LET one   == Extended(<<>>, {"get"})
      two   == UNION {Extended(b, {"get"}) : b \in one}
      three == UNION {Extended(b, {"get", "load"}) : b \in two}
      four  == UNION {Extended(b, emitKinds \ Exits) : b \in three}
  IN  UNION {Extended(b, {"load", "branch", "return"}) : b \in four}

MCBlocks ==
  LET one   == Extended(<<>>, {"get"})
      two   == UNION {Extended(b, {"get"}) : b \in one}
      three == UNION {Extended(b, emitKinds \ Exits) : b \in two}
  IN  UNION {Extended(b, emitKinds) : b \in three}

(* Pools in the order of HOST_GPRS, with registers left out.               *)
SixInPool == <<RAX, RBX, RCX, RDX, R8, R9>>
ThreeInPool == <<RAX, RCX, R8>>

SixRegs == {RAX, RBX, RCX, RDX, R8, R9}
ThreeRegs == {RAX, RCX, R8}
=============================================================================
