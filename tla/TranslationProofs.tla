-------------------------- MODULE TranslationProofs --------------------------
(***************************************************************************)
(* Proofs about Translation: for every memory, every width and every       *)
(* number of registers, a block that the frontends write is one that the   *)
(* passes and the allocator may rely on, with its exit at the end.         *)
(***************************************************************************)
EXTENDS Translation, ArithFacts, FiniteSetTheorems

-----------------------------------------------------------------------------
(* What a builder is between two of its methods.                           *)

Defined(ops, v) == \E j \in 1..Len(ops) : ops[j].dst = v

Operand(ops, x) == x \in Imm \/ Defined(ops, x)

exitNames == {"branch", "indirect", "call", "return"}

(* The ops are well-formed, with destinations from the n registers that    *)
(* were handed out, and the vreg that holds a guest register was defined.  *)
Built(bd, n) ==
  /\ bd = [ops |-> bd.ops, next |-> bd.next, at |-> bd.at]
  /\ IsSeq(bd.ops)
  /\ bd.next \in 0..n
  /\ bd.at \in [CachedReg -> VReg \cup {NoReg}]
  /\ WellFormed(bd.ops)
  /\ \A j \in 1..Len(bd.ops) :
       bd.ops[j].dst # NoReg => \E k \in 0..(bd.next - 1) : bd.ops[j].dst = VRegAt(k)
  /\ \A r \in CachedReg : bd.at[r] # NoReg => Defined(bd.ops, bd.at[r])

(* No op so far leaves the block.                                          *)
Open(bd, n) ==
  /\ Built(bd, n)
  /\ \A j \in 1..Len(bd.ops) : ~is_control_flow(bd.ops[j])

(* The last op does, and the registers that are in vregs went back.        *)
Flushes(bd) ==
  \A r \in CachedReg : bd.at[r] # NoReg =>
    \E j \in 1..Len(bd.ops) : bd.ops[j].kind = Set(r) /\ bd.ops[j].args = <<bd.at[r]>>

Ended(bd, n) ==
  /\ Built(bd, n)
  /\ bd.ops # <<>>
  /\ \A j \in 1..(Len(bd.ops) - 1) : ~is_control_flow(bd.ops[j])
  /\ is_control_flow(Last(bd.ops))
  /\ Flushes(bd)

VRegs == InsnRegs * MaxInsns

(* What a method makes of a builder: an op with a result, the read of a    *)
(* register, and one that leaves a register to the CPU state.              *)
Yields(bd, c, n) ==
  /\ Open(c, n)
  /\ c.at = bd.at
  /\ Result(c) \in VReg
  /\ Defined(c.ops, Result(c))
  /\ \A v : Defined(bd.ops, v) => Defined(c.ops, v)

Held(bd, r) == bd.at[r] # NoReg

Reads(bd, c, r, n) ==
  /\ Open(c, n)
  /\ Held(c, r)
  /\ \A q \in CachedReg : Held(bd, q) => c.at[q] = bd.at[q]
  /\ \A v : Defined(bd.ops, v) => Defined(c.ops, v)

Drops(bd, c, r, n) ==
  /\ Open(c, n)
  /\ c.at = [bd.at EXCEPT ![r] = NoReg]

LEMMA NewBlockIsOpen == Open(new_block, 0)
<1>1. \A j \in 1..Len(<<>>) : FALSE
  BY EmptySeq
<1>2. IsSeq(<<>>)
  BY EmptySeq DEF IsSeq
<1> QED
  BY <1>1, <1>2 DEF Open, Built, new_block, WellFormed

LEMMA RegsLimited == VRegs \in Nat
BY TranslationAssumption DEF VRegs, InsnRegs

(* What pushing an op does to the ops.                                     *)
LEMMA OpPushed ==
  ASSUME NEW bd, NEW n, Built(bd, n), NEW kind, NEW dst, NEW args
  PROVE  LET c == PushOp(bd, kind, dst, args)
         IN  /\ c = [ops |-> c.ops, next |-> bd.next, at |-> bd.at]
             /\ IsSeq(c.ops)
             /\ Len(bd.ops) \in Nat
             /\ Len(c.ops) = Len(bd.ops) + 1
             /\ \A j \in 1..Len(bd.ops) : c.ops[j] = bd.ops[j]
             /\ c.ops[Len(c.ops)] = [kind |-> kind, dst |-> dst, args |-> args]
             /\ Last(c.ops) = c.ops[Len(c.ops)]
             /\ \A v : Defined(c.ops, v) <=> Defined(bd.ops, v) \/ v = dst
<1> DEFINE op == [kind |-> kind, dst |-> dst, args |-> args]
           c == PushOp(bd, kind, dst, args)
<1>1. c = [ops |-> Append(bd.ops, op), next |-> bd.next, at |-> bd.at]
  <2> DEFINE o == bd.ops
             x == bd.next
             y == bd.at
  <2>1. bd = [ops |-> o, next |-> x, at |-> y]
    BY DEF Built
  <2> HIDE DEF o, x, y, op
  <2>2. [bd EXCEPT !.ops = Append(o, op)] = [ops |-> Append(o, op), next |-> x, at |-> y]
    BY ONLY <2>1
  <2>3. bd.ops = o
    BY ONLY <2>1
  <2>4. c = [bd EXCEPT !.ops = Append(o, op)]
    BY ONLY <2>3 DEF PushOp, op, c
  <2> QED
    BY <2>2, <2>4 DEF o, x, y, op
<1>2. /\ IsSeq(c.ops)
      /\ Len(bd.ops) \in Nat
      /\ Len(c.ops) = Len(bd.ops) + 1
      /\ \A j \in 1..Len(bd.ops) : c.ops[j] = bd.ops[j]
      /\ c.ops[Len(bd.ops) + 1] = op
  BY <1>1, AppendIsSeq DEF Built
<1>3. Last(c.ops) = c.ops[Len(c.ops)]
  BY DEF Last
<1>4. c = [ops |-> c.ops, next |-> bd.next, at |-> bd.at]
  BY <1>1
<1>5. op.dst = dst
  OBVIOUS
<1> HIDE DEF c, op
<1>6. ASSUME NEW v
      PROVE  Defined(c.ops, v) <=> Defined(bd.ops, v) \/ v = dst
  <2>1. ASSUME Defined(c.ops, v)
        PROVE  Defined(bd.ops, v) \/ v = dst
    <3>1. PICK j \in 1..Len(c.ops) : c.ops[j].dst = v
      BY <2>1 DEF Defined
    <3> QED
      BY <1>2, <1>5, <3>1 DEF Defined
  <2>2. ASSUME Defined(bd.ops, v)
        PROVE  Defined(c.ops, v)
    BY <1>2, <2>2 DEF Defined
  <2>3. ASSUME v = dst
        PROVE  Defined(c.ops, v)
    <3>1. Len(c.ops) \in 1..Len(c.ops)
      BY <1>2
    <3> QED
      BY <1>2, <1>5, <2>3, <3>1 DEF Defined
  <2> QED
    BY <2>1, <2>2, <2>3
<1> QED
  BY <1>2, <1>3, <1>4, <1>6 DEF c, op

(* An op for its effect leaves the block well-formed, and open unless it   *)
(* leaves it.                                                              *)
LEMMA Pushed ==
  ASSUME NEW bd, NEW n \in Nat, Open(bd, n), NEW kind, kind.name \in effectNames,
         NEW args, \A j \in DOMAIN args : Operand(bd.ops, args[j])
  PROVE  LET c == Push(bd, kind, args)
         IN  /\ Built(c, n)
             /\ kind.name \notin exitNames => Open(c, n)
             /\ kind.name \in exitNames /\ Flushes(bd) => Ended(c, n)
             /\ Flushes(bd) => Flushes(c)
             /\ c.at = bd.at
             /\ \A v : Defined(bd.ops, v) => Defined(c.ops, v)
<1> DEFINE op == [kind |-> kind, dst |-> NoReg, args |-> args]
           c == Push(bd, kind, args)
<1>0. op.kind = kind /\ op.dst = NoReg /\ op.args = args
  OBVIOUS
<1>1. Built(bd, n)
  BY DEF Open
<1>2. /\ c = [ops |-> c.ops, next |-> bd.next, at |-> bd.at]
      /\ IsSeq(c.ops)
      /\ Len(bd.ops) \in Nat
      /\ Len(c.ops) = Len(bd.ops) + 1
      /\ \A j \in 1..Len(bd.ops) : c.ops[j] = bd.ops[j]
      /\ c.ops[Len(c.ops)] = op
      /\ Last(c.ops) = c.ops[Len(c.ops)]
      /\ \A v : Defined(c.ops, v) <=> Defined(bd.ops, v) \/ v = NoReg
  BY <1>1, OpPushed DEF Push
<1> HIDE DEF op, c
<1>3. c.next = bd.next /\ c.at = bd.at
  BY <1>2
<1>4. \A v \in Operands(op) : \E i \in 1..Len(bd.ops) : c.ops[i].dst = v
  <2> SUFFICES ASSUME NEW v \in Operands(op)
               PROVE  \E i \in 1..Len(bd.ops) : c.ops[i].dst = v
    OBVIOUS
  <2>1. v \in VReg /\ Operand(bd.ops, v)
    BY <1>0 DEF Operands
  <2> QED
    BY <1>2, <2>1, ImmAssumption DEF Operand, Defined
<1>5. kind.name \notin aluNames
  BY DEF effectNames, aluNames
<1>6. WellFormed(c.ops)
  <2> SUFFICES ASSUME NEW j \in 1..Len(c.ops)
               PROVE  /\ c.ops[j].dst = NoReg <=> c.ops[j].kind.name \in effectNames
                      /\ c.ops[j].kind.name \in aluNames => Len(c.ops[j].args) = 2
                      /\ c.ops[j].dst # NoReg =>
                           \A i \in 1..(j - 1) : c.ops[i].dst # c.ops[j].dst
                      /\ \A v \in Operands(c.ops[j]) :
                           \E i \in 1..(j - 1) : c.ops[i].dst = v
    BY DEF WellFormed
  <2>1. CASE j = Len(c.ops)
    BY <1>0, <1>2, <1>4, <1>5, <2>1
  <2>2. CASE j # Len(c.ops)
    <3>1. j \in 1..Len(bd.ops) /\ c.ops[j] = bd.ops[j]
      BY <1>2, <2>2
    <3>2. \A i \in 1..(j - 1) : c.ops[i] = bd.ops[i]
      BY <1>2, <3>1
    <3>3. /\ bd.ops[j].dst = NoReg <=> bd.ops[j].kind.name \in effectNames
          /\ bd.ops[j].kind.name \in aluNames => Len(bd.ops[j].args) = 2
          /\ bd.ops[j].dst # NoReg =>
               \A i \in 1..(j - 1) : bd.ops[i].dst # bd.ops[j].dst
          /\ \A v \in Operands(bd.ops[j]) : \E i \in 1..(j - 1) : bd.ops[i].dst = v
      BY <1>1, <3>1 DEF Built, WellFormed
    <3> QED
      BY <3>1, <3>2, <3>3
  <2> QED
    BY <2>1, <2>2
<1>7. \A j \in 1..Len(c.ops) :
        c.ops[j].dst # NoReg => \E k \in 0..(c.next - 1) : c.ops[j].dst = VRegAt(k)
  <2> SUFFICES ASSUME NEW j \in 1..Len(c.ops), c.ops[j].dst # NoReg
               PROVE  \E k \in 0..(c.next - 1) : c.ops[j].dst = VRegAt(k)
    OBVIOUS
  <2>1. j \in 1..Len(bd.ops) /\ c.ops[j] = bd.ops[j]
    BY <1>0, <1>2
  <2> QED
    BY <1>1, <1>3, <2>1 DEF Built
<1>8. Built(c, n)
  BY <1>1, <1>2, <1>3, <1>6, <1>7 DEF Built
<1>9. ASSUME kind.name \notin exitNames
      PROVE  Open(c, n)
  BY <1>0, <1>2, <1>8, <1>9 DEF Open, is_control_flow, exitNames
<1>10. ASSUME Flushes(bd)
       PROVE  Flushes(c)
  <2> SUFFICES ASSUME NEW r \in CachedReg, bd.at[r] # NoReg
               PROVE  \E j \in 1..Len(c.ops) :
                        c.ops[j].kind = Set(r) /\ c.ops[j].args = <<bd.at[r]>>
    BY <1>3 DEF Flushes
  <2>1. PICK j \in 1..Len(bd.ops) :
          bd.ops[j].kind = Set(r) /\ bd.ops[j].args = <<bd.at[r]>>
    BY <1>10 DEF Flushes
  <2> QED
    BY <1>2, <2>1
<1>11. ASSUME kind.name \in exitNames, Flushes(bd)
       PROVE  Ended(c, n)
  <2>1. c.ops # <<>>
    BY <1>2
  <2>2. \A j \in 1..(Len(c.ops) - 1) : ~is_control_flow(c.ops[j])
    BY <1>2 DEF Open
  <2>3. is_control_flow(Last(c.ops))
    BY <1>0, <1>2, <1>11 DEF is_control_flow, exitNames
  <2> QED
    BY <1>8, <1>10, <1>11, <2>1, <2>2, <2>3 DEF Ended
<1> QED
  BY <1>2, <1>3, <1>8, <1>9, <1>10, <1>11 DEF c

(* An op with a result leaves the block well-formed: the register is new.  *)
LEMMA Valued ==
  ASSUME NEW bd, NEW n \in 0..(VRegs - 1), Open(bd, n),
         NEW kind, kind.name \in aluNames \cup readNames,
         NEW args, \A j \in DOMAIN args : Operand(bd.ops, args[j]),
         kind.name \in aluNames => Len(args) = 2
  PROVE  Yields(bd, Define(bd, kind, args), n + 1)
<1> DEFINE d  == VRegAt(bd.next)
           op == [kind |-> kind, dst |-> d, args |-> args]
           p  == PushOp(bd, kind, d, args)
           c  == Define(bd, kind, args)
<1>0. op.kind = kind /\ op.dst = d /\ op.args = args
  OBVIOUS
<1>1. Built(bd, n) /\ VRegs \in Nat
  BY RegsLimited DEF Open
<1> HIDE DEF d
<1>2. /\ p = [ops |-> p.ops, next |-> bd.next, at |-> bd.at]
      /\ IsSeq(p.ops)
      /\ Len(bd.ops) \in Nat
      /\ Len(p.ops) = Len(bd.ops) + 1
      /\ \A j \in 1..Len(bd.ops) : p.ops[j] = bd.ops[j]
      /\ p.ops[Len(p.ops)] = op
      /\ Last(p.ops) = p.ops[Len(p.ops)]
      /\ \A v : Defined(p.ops, v) <=> Defined(bd.ops, v) \/ v = d
  BY ONLY <1>1, OpPushed DEF op, p
<1>3. bd.next \in 0..(VRegs - 1)
  BY <1>1 DEF Built
<1>4. /\ d \in VReg
      /\ \A k \in 0..(VRegs - 1) : VRegAt(k) = d => k = bd.next
  BY <1>3, VRegAssumption DEF VRegs, d
<1>5. c = [p EXCEPT !.next = @ + 1]
  BY DEF Define, d
<1> HIDE DEF op, p, c
<1>6. /\ c = [ops |-> c.ops, next |-> c.next, at |-> c.at]
      /\ c.ops = p.ops
      /\ c.next = bd.next + 1
      /\ c.at = bd.at
  <2> DEFINE o == p.ops
             x == bd.next
             y == bd.at
  <2>1. p = [ops |-> o, next |-> x, at |-> y]
    BY <1>2
  <2> HIDE DEF o, x, y
  <2>2. c = [ops |-> o, next |-> x + 1, at |-> y]
    BY ONLY <1>5, <2>1
  <2> QED
    BY <2>2 DEF o, x, y
<1>7. \A v \in Operands(op) : \E i \in 1..Len(bd.ops) : c.ops[i].dst = v
  <2> SUFFICES ASSUME NEW v \in Operands(op)
               PROVE  \E i \in 1..Len(bd.ops) : c.ops[i].dst = v
    OBVIOUS
  <2>1. v \in VReg /\ Operand(bd.ops, v)
    BY <1>0 DEF Operands
  <2> QED
    BY <1>2, <1>6, <2>1, ImmAssumption DEF Operand, Defined
<1>8. kind.name \notin effectNames \cup exitNames
  BY DEF effectNames, exitNames, aluNames, readNames
<1>9. \A i \in 1..Len(bd.ops) : c.ops[i].dst # d
  <2> SUFFICES ASSUME NEW i \in 1..Len(bd.ops)
               PROVE  bd.ops[i].dst # d
    BY <1>2, <1>6
  <2>1. bd.ops[i].dst # NoReg => \E k \in 0..(bd.next - 1) : bd.ops[i].dst = VRegAt(k)
    BY <1>1 DEF Built
  <2> QED
    BY <1>1, <1>3, <1>4, <2>1, NoRegAssumption
<1>10. WellFormed(c.ops)
  <2> SUFFICES ASSUME NEW j \in 1..Len(c.ops)
               PROVE  /\ c.ops[j].dst = NoReg <=> c.ops[j].kind.name \in effectNames
                      /\ c.ops[j].kind.name \in aluNames => Len(c.ops[j].args) = 2
                      /\ c.ops[j].dst # NoReg =>
                           \A i \in 1..(j - 1) : c.ops[i].dst # c.ops[j].dst
                      /\ \A v \in Operands(c.ops[j]) :
                           \E i \in 1..(j - 1) : c.ops[i].dst = v
    BY DEF WellFormed
  <2>1. CASE j = Len(c.ops)
    <3>1. c.ops[j] = op /\ j - 1 = Len(bd.ops)
      BY <1>2, <1>6, <2>1
    <3> QED
      BY <1>0, <1>4, <1>7, <1>8, <1>9, <3>1, NoRegAssumption
  <2>2. CASE j # Len(c.ops)
    <3>1. j \in 1..Len(bd.ops) /\ c.ops[j] = bd.ops[j]
      BY <1>2, <1>6, <2>2
    <3>2. \A i \in 1..(j - 1) : c.ops[i] = bd.ops[i]
      BY <1>2, <1>6, <3>1
    <3>3. /\ bd.ops[j].dst = NoReg <=> bd.ops[j].kind.name \in effectNames
          /\ bd.ops[j].kind.name \in aluNames => Len(bd.ops[j].args) = 2
          /\ bd.ops[j].dst # NoReg =>
               \A i \in 1..(j - 1) : bd.ops[i].dst # bd.ops[j].dst
          /\ \A v \in Operands(bd.ops[j]) : \E i \in 1..(j - 1) : bd.ops[i].dst = v
      BY <1>1, <3>1 DEF Built, WellFormed
    <3> QED
      BY <3>1, <3>2, <3>3
  <2> QED
    BY <2>1, <2>2
<1>11. \A j \in 1..Len(c.ops) :
         c.ops[j].dst # NoReg => \E k \in 0..(c.next - 1) : c.ops[j].dst = VRegAt(k)
  <2> SUFFICES ASSUME NEW j \in 1..Len(c.ops), c.ops[j].dst # NoReg
               PROVE  \E k \in 0..(c.next - 1) : c.ops[j].dst = VRegAt(k)
    OBVIOUS
  <2>1. CASE j = Len(c.ops)
    BY <1>0, <1>2, <1>3, <1>6, <2>1 DEF d
  <2>2. CASE j # Len(c.ops)
    <3>1. j \in 1..Len(bd.ops) /\ c.ops[j] = bd.ops[j]
      BY <1>2, <1>6, <2>2
    <3>2. \E k \in 0..(bd.next - 1) : bd.ops[j].dst = VRegAt(k)
      BY <1>1, <3>1 DEF Built
    <3> QED
      BY <1>3, <1>6, <3>1, <3>2
  <2> QED
    BY <2>1, <2>2
<1>12. Built(c, n + 1)
  <2>1. c.next \in 0..(n + 1)
    BY <1>1, <1>6 DEF Built
  <2>2. /\ IsSeq(c.ops)
        /\ c.at \in [CachedReg -> VReg \cup {NoReg}]
        /\ \A r \in CachedReg : c.at[r] # NoReg => Defined(c.ops, c.at[r])
    BY <1>1, <1>2, <1>6 DEF Built
  <2> QED
    BY <1>6, <1>10, <1>11, <2>1, <2>2 DEF Built
<1>13. Open(c, n + 1)
  <2>1. \A j \in 1..Len(c.ops) : ~is_control_flow(c.ops[j])
    BY <1>0, <1>2, <1>6, <1>8 DEF Open, is_control_flow, exitNames
  <2> QED
    BY <1>12, <2>1 DEF Open
<1>14. Result(c) = d
  BY <1>0, <1>2, <1>6 DEF Result
<1> QED
  BY <1>2, <1>4, <1>6, <1>13, <1>14 DEF c, Yields

(* write_reg keeps all that, if the vreg has a value.                      *)
LEMMA RegWritten ==
  ASSUME NEW bd, NEW n, Open(bd, n), NEW r \in CachedReg,
         NEW v, v # NoReg => v \in VReg /\ Defined(bd.ops, v)
  PROVE  LET c == write_reg(bd, r, v)
         IN  /\ Open(c, n)
             /\ c.ops = bd.ops
             /\ c.at = [bd.at EXCEPT ![r] = v]
<1> DEFINE c == write_reg(bd, r, v)
           o == bd.ops
           x == bd.next
           y == bd.at
<1>1. bd = [ops |-> o, next |-> x, at |-> y]
  BY DEF Open, Built
<1> HIDE DEF o, x, y
<1>2. [bd EXCEPT !.at[r] = v] = [ops |-> o, next |-> x, at |-> [y EXCEPT ![r] = v]]
  BY ONLY <1>1
<1>3. c.ops = bd.ops /\ c.next = bd.next /\ c.at = [bd.at EXCEPT ![r] = v]
  BY <1>2 DEF write_reg, o, x, y
<1>4. c = [ops |-> c.ops, next |-> c.next, at |-> c.at]
  BY <1>2 DEF write_reg
<1>5. bd.at \in [CachedReg -> VReg \cup {NoReg}]
  BY DEF Open, Built
<1>6. c.at \in [CachedReg -> VReg \cup {NoReg}]
  BY <1>3, <1>5
<1>7. \A q \in CachedReg : c.at[q] # NoReg => Defined(c.ops, c.at[q])
  BY <1>3, <1>5 DEF Open, Built
<1> HIDE DEF c
<1>8. Open(c, n)
  BY <1>3, <1>4, <1>6, <1>7 DEF Open, Built
<1> QED
  BY <1>3, <1>8 DEF c

LEMMA OpenLonger ==
  ASSUME NEW bd, NEW n \in Nat, NEW k \in Nat, n <= k, Open(bd, n)
  PROVE  Open(bd, k)
BY DEF Open, Built

LEMMA HeldIsOperand ==
  ASSUME NEW bd, NEW n, Open(bd, n), NEW r \in CachedReg, Held(bd, r)
  PROVE  /\ bd.at[r] # NoReg
         /\ bd.at[r] \in VReg
         /\ Defined(bd.ops, bd.at[r])
         /\ Operand(bd.ops, bd.at[r])
BY DEF Open, Built, Held, Operand

(* The two operands of an op, and the one.                                 *)
LEMMA OperandPair ==
  ASSUME NEW ops, NEW x, NEW y, Operand(ops, x), Operand(ops, y)
  PROVE  /\ Len(<<x, y>>) = 2
         /\ \A j \in DOMAIN <<x, y>> : Operand(ops, <<x, y>>[j])
<1>1. \A j \in DOMAIN <<x, y>> : <<x, y>>[j] \in {x, y}
  OBVIOUS
<1> QED
  BY <1>1

LEMMA OperandAlone ==
  ASSUME NEW ops, NEW x, Operand(ops, x)
  PROVE  \A j \in DOMAIN <<x>> : Operand(ops, <<x>>[j])
<1>1. \A j \in DOMAIN <<x>> : <<x>>[j] = x
  OBVIOUS
<1> QED
  BY <1>1

LEMMA OperandNone ==
  ASSUME NEW ops
  PROVE  \A j \in DOMAIN <<>> : Operand(ops, <<>>[j])
<1>1. DOMAIN <<>> = {}
  OBVIOUS
<1> QED
  BY <1>1

LEMMA Binary ==
  ASSUME NEW bd, NEW n \in 0..(VRegs - 1), Open(bd, n),
         NEW name \in aluNames, NEW wide,
         NEW x, Operand(bd.ops, x), NEW y, Operand(bd.ops, y)
  PROVE  Yields(bd, emit_binary(bd, name, wide, x, y), n + 1)
<1> DEFINE kind == AluOp(name, wide)
           args == <<x, y>>
<1>1. kind.name \in aluNames \cup readNames
  BY DEF AluOp
<1>2. Len(args) = 2 /\ \A j \in DOMAIN args : Operand(bd.ops, args[j])
  BY OperandPair
<1>3. emit_binary(bd, name, wide, x, y) = Define(bd, kind, args)
  BY DEF emit_binary
<1> HIDE DEF kind, args
<1> QED
  BY <1>1, <1>2, <1>3, Valued

(* An op that reads something and has no operands.                         *)
LEMMA Got ==
  ASSUME NEW bd, NEW n \in 0..(VRegs - 1), Open(bd, n),
         NEW kind, kind.name \in readNames
  PROVE  Yields(bd, Define(bd, kind, <<>>), n + 1)
<1>1. kind.name \notin aluNames
  BY DEF readNames, aluNames
<1>2. \A j \in DOMAIN <<>> : Operand(bd.ops, <<>>[j])
  BY OperandNone
<1> DEFINE args == <<>>
<1>3. \A j \in DOMAIN args : Operand(bd.ops, args[j])
  BY <1>2
<1> HIDE DEF args
<1>4. Yields(bd, Define(bd, kind, args), n + 1)
  BY <1>1, <1>3, Valued
<1> QED
  BY <1>4 DEF args

(* A register that was read is in a vreg, and the others are where they    *)
(* were.                                                                   *)
LEMMA RegRead ==
  ASSUME NEW bd, NEW n \in 0..(VRegs - 1), Open(bd, n), NEW r \in CachedReg
  PROVE  Reads(bd, read_reg(bd, r), r, n + 1)
<1>0. n \in Nat
  BY RegsLimited
<1>1. CASE Held(bd, r)
  <2>1. read_reg(bd, r) = bd
    BY <1>1 DEF read_reg, Held
  <2> QED
    BY <1>0, <1>1, <2>1, OpenLonger DEF Reads
<1>2. CASE ~Held(bd, r)
  <2> DEFINE d == Define(bd, Get(r), <<>>)
             v == Result(d)
             c == [d EXCEPT !.at[r] = v]
  <2>1. read_reg(bd, r) = c
    BY <1>2 DEF read_reg, Held
  <2>2. Get(r).name \in readNames
    BY DEF Get, readNames
  <2>3. Yields(bd, d, n + 1)
    BY <2>2, Got
  <2> HIDE DEF d, v
  <2>4. c = write_reg(d, r, v)
    BY DEF write_reg
  <2> HIDE DEF c
  <2>5. /\ Open(c, n + 1)
        /\ c.ops = d.ops
        /\ c.at = [d.at EXCEPT ![r] = v]
    BY <2>3, <2>4, RegWritten DEF Yields, v
  <2>6. d.at \in [CachedReg -> VReg \cup {NoReg}]
    BY <2>3 DEF Open, Built, Yields
  <2>7. c.at[r] = v /\ \A q \in CachedReg \ {r} : c.at[q] = d.at[q]
    BY <2>5, <2>6
  <2>8. Held(c, r)
    BY <2>3, <2>7, NoRegAssumption DEF Held, Yields, v
  <2>9. \A q \in CachedReg : Held(bd, q) => c.at[q] = bd.at[q]
    BY <1>2, <2>3, <2>7 DEF Yields
  <2> QED
    BY <2>1, <2>3, <2>5, <2>8, <2>9 DEF Yields, Reads
<1> QED
  BY <1>1, <1>2

LEMMA Cached ==
  /\ \A n \in Indices : {Gpr(n), Fpr(n), Vec(n)} \subseteq CachedReg
  /\ {cr, lr, ctr, xer} \subseteq CachedReg
BY DEF CachedReg, Gpr, Fpr, Vec

LEMMA CrFieldSet ==
  ASSUME NEW bd, NEW n \in Nat, Open(bd, n), NEW field, NEW v, Operand(bd.ops, v)
  PROVE  Drops(bd, emit_set_cr_field(bd, field, v), cr, n)
<1> DEFINE kind == Set(Named("crfield", field))
           args == <<v>>
           p    == Push(bd, kind, args)
<1>1. kind.name \in effectNames /\ kind.name \notin exitNames
  BY DEF Set, effectNames, exitNames
<1>2. \A j \in DOMAIN args : Operand(bd.ops, args[j])
  BY OperandAlone
<1>3. emit_set_cr_field(bd, field, v) = write_reg(p, cr, NoReg)
  BY DEF emit_set_cr_field
<1> HIDE DEF kind, args
<1>4. /\ Open(p, n)
      /\ p.at = bd.at
      /\ \A u : Defined(bd.ops, u) => Defined(p.ops, u)
  BY <1>1, <1>2, Pushed
<1> HIDE DEF p
<1> QED
  BY <1>3, <1>4, RegWritten, Cached DEF Drops

(* Field 0 of CR is made of two flags with four ops.                       *)
LEMMA Rc0Emitted ==
  ASSUME NEW bd, NEW n \in Nat, n + 4 <= VRegs, Open(bd, n),
         NEW x, Operand(bd.ops, x), NEW wide,
         2 ^ WideBits - 1 \in Imm, 2 \in Imm
  PROVE  Drops(bd, emit_rc0_from_result(bd, x, wide), cr, n + 4)
<1> DEFINE ones  == 2 ^ WideBits - 1
           fkind == [name |-> "setflags", wide |-> wide]
           fargs == <<x, ones>>
           zkind == [name |-> "readflag", flag |-> "zero"]
           nkind == [name |-> "readflag", flag |-> "negative"]
           f     == Push(bd, fkind, fargs)
           z     == Define(f, zkind, <<>>)
           neg   == Define(z, nkind, <<>>)
           s     == emit_binary(neg, "shl", FALSE, Result(z), 2)
           o     == emit_binary(s, "or", FALSE, Result(s), Result(neg))
<1>0. VRegs \in Nat
  BY RegsLimited
<1>1. /\ fkind.name \in effectNames /\ fkind.name \notin exitNames
      /\ zkind.name \in readNames
      /\ nkind.name \in readNames
      /\ "shl" \in aluNames /\ "or" \in aluNames
  BY DEF effectNames, exitNames, readNames, aluNames
<1>2. \A j \in DOMAIN fargs : Operand(bd.ops, fargs[j])
  <2>1. Operand(bd.ops, ones)
    BY DEF Operand
  <2> HIDE DEF ones
  <2> QED
    BY <2>1, OperandPair
<1>3. emit_rc0_from_result(bd, x, wide) = emit_set_cr_field(o, 0, Result(o))
  BY DEF emit_rc0_from_result
<1> HIDE DEF fkind, fargs, zkind, nkind
<1>4. Open(f, n) /\ f.at = bd.at
  BY <1>1, <1>2, Pushed
<1> HIDE DEF f
<1>5. Yields(f, z, n + 1)
  <2>1. n \in 0..(VRegs - 1)
    BY <1>0
  <2> QED
    BY <1>1, <1>4, <2>1, Got
<1> HIDE DEF z
<1>6. Yields(z, neg, n + 2)
  <2>1. n + 1 \in 0..(VRegs - 1) /\ (n + 1) + 1 = n + 2
    BY <1>0
  <2>2. Open(z, n + 1)
    BY <1>5 DEF Yields
  <2>3. Yields(z, neg, (n + 1) + 1)
    BY <1>1, <2>1, <2>2, Got
  <2> QED
    BY <2>1, <2>3
<1> HIDE DEF neg
<1>7. Yields(neg, s, n + 3)
  <2>1. n + 2 \in 0..(VRegs - 1) /\ (n + 2) + 1 = n + 3
    BY <1>0
  <2>2. Operand(neg.ops, Result(z)) /\ Operand(neg.ops, 2) /\ Open(neg, n + 2)
    BY <1>5, <1>6 DEF Operand, Yields
  <2>3. Yields(neg, s, (n + 2) + 1)
    BY <1>1, <2>1, <2>2, Binary
  <2> QED
    BY <2>1, <2>3
<1> HIDE DEF s
<1>8. Yields(s, o, n + 4)
  <2>1. n + 3 \in 0..(VRegs - 1) /\ (n + 3) + 1 = n + 4
    BY <1>0
  <2>2. Operand(s.ops, Result(s)) /\ Operand(s.ops, Result(neg)) /\ Open(s, n + 3)
    BY <1>6, <1>7 DEF Operand, Yields
  <2>3. Yields(s, o, (n + 3) + 1)
    BY <1>1, <2>1, <2>2, Binary
  <2> QED
    BY <2>1, <2>3
<1> HIDE DEF o
<1>9. /\ Operand(o.ops, Result(o))
      /\ n + 4 \in Nat
      /\ Open(o, n + 4)
      /\ o.at = bd.at
  BY <1>4, <1>5, <1>6, <1>7, <1>8 DEF Operand, Yields
<1>10. Drops(o, emit_set_cr_field(o, 0, Result(o)), cr, n + 4)
  BY <1>9, CrFieldSet
<1> QED
  BY <1>3, <1>9, <1>10 DEF Drops

-----------------------------------------------------------------------------
(* The flush.                                                              *)

(* The elements of a finite set of numbers are numbered by how many are    *)
(* not above them.                                                         *)
LEMMA Ranks ==
  ASSUME NEW N \in Nat, NEW H \in SUBSET (1..N)
  PROVE  /\ Cardinality(H) \in Nat
         /\ \A j \in H : Cardinality({i \in H : i <= j}) \in 1..Cardinality(H)
         /\ \A j, k \in H :
              Cardinality({i \in H : i <= j}) = Cardinality({i \in H : i <= k}) => j = k
         /\ \A n \in 1..Cardinality(H) :
              \E j \in H : Cardinality({i \in H : i <= j}) = n
<1> DEFINE Upto(j) == {i \in H : i <= j}
           rank == [j \in H |-> Cardinality(Upto(j))]
<1>1. IsFiniteSet(H)
  <2>1. IsFiniteSet(1..N)
    BY FS_Interval
  <2> QED
    BY <2>1, FS_Subset
<1>2. Cardinality(H) \in Nat
  BY <1>1, FS_CardinalityType
<1>3. \A j \in H : /\ IsFiniteSet(Upto(j))
                   /\ Cardinality(Upto(j)) \in Nat
                   /\ Cardinality(Upto(j)) <= Cardinality(H)
  <2> TAKE j \in H
  <2>1. Upto(j) \in SUBSET H
    OBVIOUS
  <2> HIDE DEF Upto
  <2> QED
    BY <1>1, <2>1, FS_Subset, FS_CardinalityType
<1>4. \A j \in H : Cardinality(Upto(j)) \in 1..Cardinality(H)
  <2> TAKE j \in H
  <2>1. Upto(j) # {}
    OBVIOUS
  <2> HIDE DEF Upto
  <2>2. Cardinality(Upto(j)) # 0
    BY <1>3, <2>1, FS_EmptySet
  <2> QED
    BY <1>2, <1>3, <2>2
<1>5. \A j, k \in H : j < k => Cardinality(Upto(j)) # Cardinality(Upto(k))
  <2> SUFFICES ASSUME NEW j \in H, NEW k \in H, j < k
               PROVE  Cardinality(Upto(j)) # Cardinality(Upto(k))
    OBVIOUS
  <2>1. Upto(j) \in SUBSET Upto(k) /\ Upto(j) # Upto(k)
    <3>1. Upto(j) \in SUBSET Upto(k)
      <4>1. \A i \in H : i <= j => i <= k
        <5>1. H \subseteq Int
          OBVIOUS
        <5> QED
          BY ONLY <5>1, j \in H, k \in H, j < k
      <4> QED
        BY ONLY <4>1
    <3>2. k \in Upto(k) /\ k \notin Upto(j)
      OBVIOUS
    <3> QED
      BY <3>1, <3>2
  <2> HIDE DEF Upto
  <2> QED
    BY <1>3, <2>1, FS_Subset
<1>6. \A j, k \in H : Cardinality(Upto(j)) = Cardinality(Upto(k)) => j = k
  <2> SUFFICES ASSUME NEW j \in H, NEW k \in H,
                      Cardinality(Upto(j)) = Cardinality(Upto(k)), j # k
               PROVE  FALSE
    OBVIOUS
  <2> HIDE DEF Upto
  <2>1. j < k \/ k < j
    OBVIOUS
  <2> QED
    BY <1>5, <2>1
<1> HIDE DEF Upto
<1>7. rank \in Injection(H, 1..Cardinality(H))
  BY <1>4, <1>6 DEF Injection, IsInjective
<1>8. rank \in Surjection(H, 1..Cardinality(H))
  <2>1. /\ IsFiniteSet(1..Cardinality(H))
        /\ Cardinality(1..Cardinality(H)) = Cardinality(H)
    BY <1>2, FS_Interval
  <2> HIDE DEF rank
  <2> QED
    BY <1>7, <2>1, FS_Injection
<1>9. \A n \in 1..Cardinality(H) : \E j \in H : Cardinality(Upto(j)) = n
  BY <1>8 DEF Surjection
<1> QED
  BY <1>2, <1>4, <1>6, <1>9 DEF Upto

(* The order of the flush names every register that the builder caches.    *)
LEMMA FlushOrderFacts ==
  /\ \E N \in Nat : DOMAIN FlushOrder = 1..N
  /\ \A j \in DOMAIN FlushOrder : FlushOrder[j] \in CachedReg
  /\ \A r \in CachedReg : \E j \in DOMAIN FlushOrder : FlushOrder[j] = r
<1> DEFINE card == Cardinality(Indices)
           last == 3 * card
           names == <<"gpr", "fpr", "vec">>
           others == <<cr, lr, ctr, xer>>
<1>1. card \in Nat /\ Indices = 0..(card - 1)
  BY IndicesAssumption, FS_CardinalityType
<1> HIDE DEF card
<1>2. FlushOrder =
        [j \in 1..(last + 4) |->
           IF j > last THEN others[j - last]
           ELSE Named(names[1 + ((j - 1) % 3)], (j - 1) \div 3)]
  BY DEF FlushOrder, card
<1>3. DOMAIN FlushOrder = 1..(last + 4) /\ last + 4 \in Nat
  BY <1>1, <1>2
<1>4. ASSUME NEW j \in 1..(last + 4)
      PROVE  FlushOrder[j] \in CachedReg
  <2>1. CASE j > last
    <3>1. j - last \in 1..4
      BY <1>1, <2>1
    <3>2. others[j - last] \in {cr, lr, ctr, xer}
      BY <3>1
    <3> QED
      BY <1>2, <2>1, <3>2 DEF CachedReg
  <2>2. CASE j <= last
    <3>1. (j - 1) % 3 \in 0..2 /\ (j - 1) \div 3 \in Indices
      BY <1>1, <2>2
    <3>2. names[1 + ((j - 1) % 3)] \in {"gpr", "fpr", "vec"}
      BY <3>1
    <3>3. FlushOrder[j] = Named(names[1 + ((j - 1) % 3)], (j - 1) \div 3)
      BY <1>1, <1>2, <2>2
    <3> QED
      BY <3>1, <3>2, <3>3 DEF CachedReg
  <2> QED
    BY <1>1, <2>1, <2>2
<1>5. ASSUME NEW r \in CachedReg
      PROVE  \E j \in 1..(last + 4) : FlushOrder[j] = r
  <2>1. CASE r \in {cr, lr, ctr, xer}
    <3>1. \E k \in 1..4 : others[k] = r
      BY <2>1
    <3>2. PICK k \in 1..4 : others[k] = r
      BY <3>1
    <3>3. last + k \in 1..(last + 4) /\ last + k > last /\ (last + k) - last = k
      BY <1>1
    <3>4. FlushOrder[last + k] = others[k]
      BY <1>2, <3>3
    <3> QED
      BY <3>2, <3>3, <3>4
  <2>2. CASE r \notin {cr, lr, ctr, xer}
    <3>1. PICK id \in {"gpr", "fpr", "vec"}, n \in Indices : r = Named(id, n)
      BY <2>2 DEF CachedReg
    <3>2. PICK k \in 1..3 : names[k] = id
      BY <3>1
    <3> DEFINE j == 3 * n + k
    <3>3. /\ j \in 1..(last + 4)
          /\ ~(j > last)
          /\ (j - 1) % 3 = k - 1
          /\ (j - 1) \div 3 = n
      BY <1>1
    <3>4. 1 + ((j - 1) % 3) = k
      BY <3>3
    <3>5. FlushOrder[j] = Named(names[k], n)
      BY <1>2, <3>3, <3>4
    <3> QED
      BY <3>1, <3>2, <3>3, <3>5
  <2> QED
    BY <2>1, <2>2
<1> QED
  BY <1>3, <1>4, <1>5

(* The flush appends one Set for each register that is in a vreg.          *)
FlushesBy(bd, c, K, q) ==
  /\ c = [ops |-> c.ops, next |-> c.next, at |-> c.at]
  /\ c.next = bd.next
  /\ c.at = bd.at
  /\ IsSeq(c.ops)
  /\ Len(bd.ops) \in Nat
  /\ Len(c.ops) = Len(bd.ops) + K
  /\ \A j \in 1..Len(bd.ops) : c.ops[j] = bd.ops[j]
  /\ \A k \in 1..K :
       /\ q[k] \in CachedReg /\ Held(bd, q[k])
       /\ c.ops[Len(bd.ops) + k] =
            [kind |-> Set(q[k]), dst |-> NoReg, args |-> <<bd.at[q[k]]>>]
  /\ \A r \in CachedReg : Held(bd, r) => \E k \in 1..K : q[k] = r

LEMMA FlushIs ==
  ASSUME NEW bd, NEW n, Open(bd, n)
  PROVE  \E K \in Nat : \E q : FlushesBy(bd, flush_guest_state(bd), K, q)
<1> DEFINE held   == {j \in DOMAIN FlushOrder : bd.at[FlushOrder[j]] # NoReg}
           pick(k) == CHOOSE j \in held : Cardinality({i \in held : i <= j}) = k
           reg(k) == FlushOrder[pick(k)]
           K      == Cardinality(held)
           op(k)  == [kind |-> Set(reg(k)), dst |-> NoReg, args |-> <<bd.at[reg(k)]>>]
           sets   == [k \in 1..K |-> op(k)]
           c      == flush_guest_state(bd)
<1>1. PICK N \in Nat : DOMAIN FlushOrder = 1..N
  BY FlushOrderFacts
<1>2. held \in SUBSET (1..N)
  BY <1>1
<1>3. c = [bd EXCEPT !.ops = @ \o sets]
  BY DEF flush_guest_state, Flushed
<1> HIDE DEF c
<1>4. /\ K \in Nat
      /\ \A j \in held : Cardinality({i \in held : i <= j}) \in 1..K
      /\ \A j, k \in held :
           Cardinality({i \in held : i <= j}) = Cardinality({i \in held : i <= k}) => j = k
      /\ \A k \in 1..K : \E j \in held : Cardinality({i \in held : i <= j}) = k
  <2> HIDE DEF held
  <2> QED
    BY <1>2, Ranks
<1>5. ASSUME NEW k \in 1..K
      PROVE  pick(k) \in held
  <2> HIDE DEF held
  <2> QED
    BY <1>4
<1>6. ASSUME NEW j \in held
      PROVE  \E k \in 1..K : pick(k) = j
  <2> HIDE DEF held
  <2>1. PICK k \in 1..K : k = Cardinality({i \in held : i <= j})
    BY <1>4
  <2>2. \A i \in held : Cardinality({h \in held : h <= i}) = k <=> i = j
    BY <1>4, <2>1
  <2>3. pick(k) \in held /\ Cardinality({h \in held : h <= pick(k)}) = k
    BY <1>4
  <2> QED
    BY <2>1, <2>2, <2>3
<1>7. ASSUME NEW k \in 1..K
      PROVE  reg(k) \in CachedReg /\ Held(bd, reg(k))
  <2>1. pick(k) \in held
    BY <1>5
  <2> HIDE DEF pick
  <2> QED
    BY <2>1, FlushOrderFacts DEF Held
<1>8. ASSUME NEW r \in CachedReg, Held(bd, r)
      PROVE  \E k \in 1..K : reg(k) = r
  <2>1. PICK j \in DOMAIN FlushOrder : FlushOrder[j] = r
    BY FlushOrderFacts
  <2>2. j \in held
    BY <1>8, <2>1 DEF Held
  <2>3. PICK k \in 1..K : pick(k) = j
    BY <1>6, <2>2
  <2> QED
    BY <2>1, <2>3
<1> HIDE DEF reg, K
<1>9. /\ IsSeq(sets)
      /\ Len(sets) = K
      /\ \A k \in 1..K : sets[k] = op(k)
  <2> DEFINE S == {op(k) : k \in 1..K}
  <2>1. sets \in [1..K -> S]
    OBVIOUS
  <2>2. \A k \in 1..K : sets[k] = op(k)
    OBVIOUS
  <2> HIDE DEF S, sets, op
  <2>3. sets \in Seq(S) /\ Len(sets) = K
    BY <1>4, <2>1
  <2> QED
    BY <2>2, <2>3, SeqIsSeq
<1> HIDE DEF sets
<1>10. /\ c = [ops |-> c.ops, next |-> c.next, at |-> c.at]
       /\ c.ops = bd.ops \o sets
       /\ c.next = bd.next
       /\ c.at = bd.at
  <2> DEFINE o == bd.ops
             x == bd.next
             y == bd.at
  <2>1. bd = [ops |-> o, next |-> x, at |-> y]
    BY DEF Open, Built
  <2> HIDE DEF o, x, y
  <2>2. c = [ops |-> o \o sets, next |-> x, at |-> y]
    BY ONLY <1>3, <2>1
  <2> QED
    BY <2>2 DEF o, x, y
<1>11. /\ IsSeq(c.ops)
       /\ Len(bd.ops) \in Nat
       /\ Len(c.ops) = Len(bd.ops) + K
       /\ \A j \in 1..Len(bd.ops) : c.ops[j] = bd.ops[j]
       /\ \A k \in 1..K : c.ops[Len(bd.ops) + k] = op(k)
  <2>1. IsSeq(bd.ops)
    BY DEF Open, Built
  <2> HIDE DEF op
  <2>2. Joined(c.ops, bd.ops, sets)
    BY <1>9, <1>10, <2>1, ConcatIsSeq
  <2> QED
    BY <1>9, <2>2 DEF Joined
<1> DEFINE q == [k \in 1..K |-> reg(k)]
<1>12. \A k \in 1..K : q[k] = reg(k)
  OBVIOUS
<1>13. \A k \in 1..K : op(k) = [kind |-> Set(reg(k)), dst |-> NoReg, args |-> <<bd.at[reg(k)]>>]
  OBVIOUS
<1> HIDE DEF q, op
<1>14. \A k \in 1..K :
         /\ q[k] \in CachedReg /\ Held(bd, q[k])
         /\ c.ops[Len(bd.ops) + k] =
              [kind |-> Set(q[k]), dst |-> NoReg, args |-> <<bd.at[q[k]]>>]
  BY <1>7, <1>11, <1>12, <1>13
<1>15. \A r \in CachedReg : Held(bd, r) => \E k \in 1..K : q[k] = r
  BY <1>8, <1>12
<1>16. FlushesBy(bd, c, K, q)
  BY <1>10, <1>11, <1>14, <1>15 DEF FlushesBy
<1> QED
  BY <1>4, <1>16 DEF c

(* After the flush the block is still open and every register that was in  *)
(* a vreg went back.                                                       *)
LEMMA GuestStateFlushed ==
  ASSUME NEW bd, NEW n \in Nat, Open(bd, n)
  PROVE  LET c == flush_guest_state(bd)
         IN  /\ Open(c, n)
             /\ Flushes(c)
             /\ c.at = bd.at
             /\ \A v : Defined(bd.ops, v) => Defined(c.ops, v)
<1> DEFINE c == flush_guest_state(bd)
<1>1. PICK K \in Nat : \E q : FlushesBy(bd, c, K, q)
  BY FlushIs
<1>2. PICK q : FlushesBy(bd, c, K, q)
  BY <1>1
<1> HIDE DEF c
<1> DEFINE reg(k) == q[k]
           op(k)  == [kind |-> Set(reg(k)), dst |-> NoReg, args |-> <<bd.at[reg(k)]>>]
<1>3. K \in Nat
  BY <1>1
<1>4. \A k \in 1..K : reg(k) \in CachedReg /\ Held(bd, reg(k))
  BY <1>2 DEF FlushesBy
<1>5. ASSUME NEW r \in CachedReg, Held(bd, r)
      PROVE  \E k \in 1..K : reg(k) = r
  BY <1>2, <1>5 DEF FlushesBy
<1> HIDE DEF reg
<1>6. c = [ops |-> c.ops, next |-> c.next, at |-> c.at] /\ c.next = bd.next /\ c.at = bd.at
  BY <1>2 DEF FlushesBy
<1>7. /\ IsSeq(c.ops)
      /\ Len(bd.ops) \in Nat
      /\ Len(c.ops) = Len(bd.ops) + K
      /\ \A j \in 1..Len(bd.ops) : c.ops[j] = bd.ops[j]
      /\ \A k \in 1..K : c.ops[Len(bd.ops) + k] = op(k)
  BY <1>2 DEF FlushesBy, reg
<1>8. \A j \in 1..Len(c.ops) :
         \/ j \in 1..Len(bd.ops)
         \/ \E k \in 1..K : j = Len(bd.ops) + k /\ c.ops[j] = op(k)
  <2> HIDE DEF op
  <2> SUFFICES ASSUME NEW j \in 1..Len(c.ops), j > Len(bd.ops)
               PROVE  \E k \in 1..K : j = Len(bd.ops) + k /\ c.ops[j] = op(k)
    <3>1. \A j \in 1..Len(c.ops) : j \in 1..Len(bd.ops) \/ j > Len(bd.ops)
      BY <1>3, <1>7
    <3> QED
      BY <3>1
  <2>1. j - Len(bd.ops) \in 1..K /\ j = Len(bd.ops) + (j - Len(bd.ops))
    <3> DEFINE l == Len(bd.ops)
    <3>1. l \in Nat /\ K \in Nat /\ j \in 1..(l + K) /\ j > l
      BY <1>3, <1>7
    <3> HIDE DEF l
    <3>2. j - l \in 1..K /\ j = l + (j - l)
      BY ONLY <3>1
    <3> QED
      BY <3>2 DEF l
  <2> QED
    BY <1>3, <1>7, <2>1
<1>9. \A k \in 1..K :
         /\ op(k).dst = NoReg
         /\ op(k).kind.name = "set"
         /\ \A v \in Operands(op(k)) : \E i \in 1..Len(bd.ops) : bd.ops[i].dst = v
  <2> TAKE k \in 1..K
  <2> DEFINE r == reg(k)
  <2>1. r \in CachedReg /\ Held(bd, r)
    BY <1>4
  <2>2. op(k).args = <<bd.at[r]>> /\ op(k).dst = NoReg /\ op(k).kind.name = "set"
    BY DEF Set
  <2>3. Defined(bd.ops, bd.at[r])
    BY <2>1, HeldIsOperand
  <2> HIDE DEF r
  <2>4. \A v \in Operands(op(k)) : v = bd.at[r]
    BY <2>2 DEF Operands
  <2> QED
    BY <2>2, <2>3, <2>4 DEF Defined
<1>10. \A k \in 1..K : op(k).kind = Set(reg(k)) /\ op(k).args = <<bd.at[reg(k)]>>
  OBVIOUS
<1> HIDE DEF op
<1>11. "set" \in effectNames /\ "set" \notin aluNames /\ "set" \notin exitNames
  BY DEF effectNames, aluNames, exitNames
<1>12. WellFormed(c.ops)
  <2> SUFFICES ASSUME NEW j \in 1..Len(c.ops)
               PROVE  /\ c.ops[j].dst = NoReg <=> c.ops[j].kind.name \in effectNames
                      /\ c.ops[j].kind.name \in aluNames => Len(c.ops[j].args) = 2
                      /\ c.ops[j].dst # NoReg =>
                           \A i \in 1..(j - 1) : c.ops[i].dst # c.ops[j].dst
                      /\ \A v \in Operands(c.ops[j]) :
                           \E i \in 1..(j - 1) : c.ops[i].dst = v
    BY DEF WellFormed
  <2>1. CASE j \in 1..Len(bd.ops)
    <3>1. c.ops[j] = bd.ops[j] /\ \A i \in 1..(j - 1) : c.ops[i] = bd.ops[i]
      BY <1>3, <1>7, <2>1
    <3>2. /\ bd.ops[j].dst = NoReg <=> bd.ops[j].kind.name \in effectNames
          /\ bd.ops[j].kind.name \in aluNames => Len(bd.ops[j].args) = 2
          /\ bd.ops[j].dst # NoReg =>
               \A i \in 1..(j - 1) : bd.ops[i].dst # bd.ops[j].dst
          /\ \A v \in Operands(bd.ops[j]) : \E i \in 1..(j - 1) : bd.ops[i].dst = v
      BY <2>1 DEF Open, Built, WellFormed
    <3> QED
      BY <3>1, <3>2
  <2>2. CASE j \notin 1..Len(bd.ops)
    <3>1. PICK k \in 1..K : j = Len(bd.ops) + k /\ c.ops[j] = op(k)
      BY <1>8, <2>2
    <3>2. \A i \in 1..Len(bd.ops) : i \in 1..(j - 1) /\ c.ops[i] = bd.ops[i]
      BY <1>7, <2>2
    <3>3. /\ c.ops[j].dst = NoReg
          /\ c.ops[j].kind.name = "set"
          /\ \A v \in Operands(c.ops[j]) : \E i \in 1..Len(bd.ops) : bd.ops[i].dst = v
      BY <1>9, <3>1
    <3>4. \A v \in Operands(c.ops[j]) : \E i \in 1..(j - 1) : c.ops[i].dst = v
      BY ONLY <3>2, <3>3
    <3> QED
      BY ONLY <1>11, <3>3, <3>4
  <2> QED
    BY <2>1, <2>2
<1>13. \A j \in 1..Len(c.ops) :
         c.ops[j].dst # NoReg => \E k \in 0..(c.next - 1) : c.ops[j].dst = VRegAt(k)
  <2> SUFFICES ASSUME NEW j \in 1..Len(c.ops), c.ops[j].dst # NoReg
               PROVE  \E k \in 0..(c.next - 1) : c.ops[j].dst = VRegAt(k)
    OBVIOUS
  <2>1. j \in 1..Len(bd.ops)
    <3>1. ASSUME NEW k \in 1..K, c.ops[j] = op(k)
          PROVE  FALSE
      BY <1>9, <3>1
    <3> QED
      BY <1>8, <3>1
  <2>2. \E k \in 0..(bd.next - 1) : bd.ops[j].dst = VRegAt(k)
    BY <1>7, <2>1 DEF Open, Built
  <2> QED
    BY <1>6, <1>7, <2>1, <2>2
<1>14. \A v : Defined(bd.ops, v) => Defined(c.ops, v)
  <2>1. 1..Len(bd.ops) \subseteq 1..Len(c.ops) /\ \A j \in 1..Len(bd.ops) : c.ops[j] = bd.ops[j]
    BY <1>3, <1>7
  <2> QED
    BY ONLY <2>1 DEF Defined
<1>15. Built(c, n)
  <2>1. \A r \in CachedReg : c.at[r] # NoReg => Defined(c.ops, c.at[r])
    BY <1>6, <1>14 DEF Open, Built
  <2>2. c.next \in 0..n /\ c.at \in [CachedReg -> VReg \cup {NoReg}]
    BY <1>6 DEF Open, Built
  <2> QED
    BY <1>6, <1>7, <1>12, <1>13, <2>1, <2>2 DEF Built
<1>16. Open(c, n)
  <2>1. ASSUME NEW j \in 1..Len(c.ops)
        PROVE  ~is_control_flow(c.ops[j])
    <3>1. CASE j \in 1..Len(bd.ops)
      BY <1>7, <3>1 DEF Open
    <3>2. CASE j \notin 1..Len(bd.ops)
      <4>1. PICK k \in 1..K : c.ops[j] = op(k)
        BY <1>8, <3>2
      <4>2. c.ops[j].kind.name = "set"
        BY <1>9, <4>1
      <4> QED
        BY <4>2 DEF is_control_flow
    <3> QED
      BY <3>1, <3>2
  <2> QED
    BY <1>15, <2>1 DEF Open
<1>17. Flushes(c)
  <2> SUFFICES ASSUME NEW r \in CachedReg, Held(bd, r)
               PROVE  \E j \in 1..Len(c.ops) :
                        c.ops[j].kind = Set(r) /\ c.ops[j].args = <<bd.at[r]>>
    BY <1>6 DEF Flushes, Held
  <2>1. PICK k \in 1..K : reg(k) = r
    BY <1>5
  <2>2. Len(bd.ops) + k \in 1..Len(c.ops) /\ c.ops[Len(bd.ops) + k] = op(k)
    <3>1. k \in Nat \ {0} /\ k <= K
      OBVIOUS
    <3>2. Len(bd.ops) + k \in 1..Len(c.ops)
      BY ONLY <1>3, <1>7, <3>1, K \in Nat
    <3> QED
      BY <1>7, <3>2
  <2> QED
    BY <1>10, <2>1, <2>2
<1> QED
  BY <1>6, <1>14, <1>16, <1>17 DEF c

(* Every end of a block flushes, and leaves the block with its last op.    *)
LEMMA Exited ==
  ASSUME NEW bd, NEW n \in Nat, Open(bd, n),
         NEW kind, kind.name \in exitNames, NEW args,
         \A j \in DOMAIN args : Operand(bd.ops, args[j])
  PROVE  /\ Ended(Push(flush_guest_state(bd), kind, args), n)
         /\ \A x : Operand(bd.ops, x) =>
              Ended(Push(emit_set_pc(flush_guest_state(bd), x), kind, args), n)
<1> DEFINE f == flush_guest_state(bd)
<1>1. /\ Open(f, n)
      /\ Flushes(f)
      /\ \A v : Defined(bd.ops, v) => Defined(f.ops, v)
  BY GuestStateFlushed
<1> HIDE DEF f
<1>2. kind.name \in effectNames
  BY DEF effectNames, exitNames
<1>3. \A v : Operand(bd.ops, v) => Operand(f.ops, v)
  BY <1>1 DEF Operand
<1>4. Ended(Push(f, kind, args), n)
  <2>1. \A j \in DOMAIN args : Operand(f.ops, args[j])
    BY <1>3
  <2> QED
    BY <1>1, <1>2, <2>1, Pushed
<1>5. ASSUME NEW x, Operand(bd.ops, x)
      PROVE  Ended(Push(emit_set_pc(f, x), kind, args), n)
  <2> DEFINE p == emit_set_pc(f, x)
             xs == <<x>>
  <2>1. Set(pc).name \in effectNames /\ Set(pc).name \notin exitNames
    BY DEF Set, effectNames, exitNames
  <2>2. \A j \in DOMAIN xs : Operand(f.ops, xs[j])
    BY <1>3, <1>5, OperandAlone
  <2>3. p = Push(f, Set(pc), xs)
    BY DEF emit_set_pc
  <2> HIDE DEF p, xs
  <2>4. /\ Open(p, n)
        /\ Flushes(p)
        /\ \A v : Defined(f.ops, v) => Defined(p.ops, v)
    BY <1>1, <2>1, <2>2, <2>3, Pushed
  <2>5. \A j \in DOMAIN args : Operand(p.ops, args[j])
    BY <1>3, <2>4 DEF Operand
  <2>6. Ended(Push(p, kind, args), n)
    BY <1>2, <2>4, <2>5, Pushed
  <2> QED
    BY <2>6 DEF p
<1> QED
  BY <1>4, <1>5 DEF f

LEMMA ExitsEnd ==
  ASSUME NEW bd, NEW n \in Nat, Open(bd, n), NEW x, Operand(bd.ops, x)
  PROVE  /\ x \in Imm => Ended(emit_exit_uncond(bd, x), n)
         /\ \A taken, fall : Ended(emit_exit_cond(bd, x, taken, fall), n)
         /\ Ended(emit_exit_indirect(bd, x), n)
         /\ Ended(ExitTo(bd, x), n)
<1> DEFINE none == <<>>
           xs == <<x>>
<1>1. \A j \in DOMAIN none : Operand(bd.ops, none[j])
  BY OperandNone
<1>2. \A j \in DOMAIN xs : Operand(bd.ops, xs[j])
  BY OperandAlone
<1>3. /\ \A t, f : Branch(t, f).name \in exitNames
      /\ [name |-> "indirect"].name \in exitNames
      /\ [name |-> "return"].name \in exitNames
  BY DEF Branch, exitNames
<1> HIDE DEF none, xs
<1>4. Ended(Push(emit_set_pc(flush_guest_state(bd), x), Branch(x, x), none), n)
  BY <1>1, <1>3, Exited
<1>5. \A t, f : Ended(Push(flush_guest_state(bd), Branch(t, f), xs), n)
  BY <1>2, <1>3, Exited
<1>6. Ended(Push(emit_set_pc(flush_guest_state(bd), x), [name |-> "indirect"], xs), n)
  BY <1>2, <1>3, Exited
<1>7. Ended(Push(emit_set_pc(flush_guest_state(bd), x), [name |-> "return"], none), n)
  BY <1>1, <1>3, Exited
<1> QED
  BY <1>4, <1>5, <1>6, <1>7
  DEF emit_exit_uncond, emit_exit_cond, emit_exit_indirect, ExitTo, none, xs

-----------------------------------------------------------------------------
(* The literals of the instructions are words, which are immediates.       *)

LEMMA Widths ==
  /\ HalfBits \in 2..NarrowBits
  /\ NarrowBits \in 4..WideBits
  /\ {HalfBits, NarrowBits, WideBits} \subseteq 1..WideBits
  /\ {2 ^ HalfBits, 2 ^ NarrowBits, 2 ^ WideBits} \subseteq Nat \ {0}
  /\ 2 ^ NarrowBits = 2 ^ HalfBits * 2 ^ HalfBits
  /\ 2 ^ NarrowBits <= 2 ^ WideBits
  /\ WideBits < 2 ^ WideBits
<1>1. /\ HalfBits \in Nat \ 0..1 /\ NarrowBits = 2 * HalfBits /\ WideBits = 2 * NarrowBits
  BY WidthAssumption
<1>2. /\ HalfBits \in 2..NarrowBits
      /\ NarrowBits \in 4..WideBits
      /\ {HalfBits, NarrowBits, WideBits} \subseteq 1..WideBits
  BY <1>1
<1>3. {2 ^ HalfBits, 2 ^ NarrowBits, 2 ^ WideBits} \subseteq Nat \ {0}
  <2>1. {HalfBits, NarrowBits, WideBits} \subseteq 0..(WideBits + 1)
    BY <1>1
  <2> QED
    BY ONLY <2>1, Power
<1>4. 2 ^ NarrowBits = 2 ^ HalfBits * 2 ^ HalfBits
  <2>1. HalfBits \in Nat /\ HalfBits + HalfBits = NarrowBits /\ NarrowBits <= WideBits + 1
    BY <1>1
  <2> QED
    BY <2>1, PowerSum
<1>5. 2 ^ NarrowBits <= 2 ^ WideBits
  <2>1. WideBits \in 0..WideBits /\ NarrowBits \in 0..WideBits
    BY <1>1
  <2> QED
    BY <2>1, PowerGrows
<1>6. WideBits < 2 ^ WideBits
  BY <1>1, PowerExceeds
<1> QED
  BY <1>2, <1>3, <1>4, <1>5, <1>6

LEMMA TruncIsWord ==
  ASSUME NEW x \in Int
  PROVE  /\ Trunc(x, WideBits) \in Word
         /\ Trunc(x, NarrowBits) \in Word
         /\ Trunc(x, HalfBits) \in Nat
<1>1. {HalfBits, NarrowBits, WideBits} \subseteq 0..WideBits
  BY Widths, BitsAssumption
<1>2. /\ Trunc(x, WideBits) \in 0..(2 ^ WideBits - 1)
      /\ Trunc(x, NarrowBits) \in 0..(2 ^ NarrowBits - 1)
      /\ Trunc(x, HalfBits) \in 0..(2 ^ HalfBits - 1)
  BY <1>1, TruncFacts
<1> QED
  BY <1>2, Widths DEF Word

LEMMA SignedIsInt ==
  ASSUME NEW x \in Int
  PROVE  Signed(x, HalfBits) \in Int /\ Signed(x, NarrowBits) \in Int
BY Widths, SignedFacts

LEMMA SignExtendIsWord ==
  ASSUME NEW x \in Int
  PROVE  SignExtend(x, HalfBits) \in Word /\ SignExtend(x, NarrowBits) \in Word
<1>1. Trunc(x, HalfBits) \in Int /\ Trunc(x, NarrowBits) \in Int
  BY TruncIsWord DEF Word
<1>2. /\ Signed(Trunc(x, HalfBits), HalfBits) \in Int
      /\ Signed(Trunc(x, NarrowBits), NarrowBits) \in Int
  BY <1>1, SignedIsInt
<1> QED
  BY <1>2, TruncIsWord DEF SignExtend

LEMMA SmallWords == {0, 1, 2, 2 ^ WideBits - 1} \subseteq Word
<1>1. 2 ^ WideBits \in Nat /\ 2 < 2 ^ WideBits
  BY Widths
<1> QED
  BY <1>1 DEF Word

LEMMA PpcLiterals ==
  ASSUME NEW w \in Words["ppc"], NEW p \in Word
  PROVE  /\ {simm(w), w.imm, w.imm * 2 ^ HalfBits} \subseteq Word
         /\ SignExtend(w.imm * 2 ^ HalfBits, NarrowBits) \in Word
         /\ li_target(w, p) \in Word /\ bd_target(w, p) \in Word
         /\ next_pc(p) \in Word
<1> DEFINE H == 2 ^ HalfBits
           N == 2 ^ NarrowBits
           W == 2 ^ WideBits
<1>1. /\ H \in Nat \ {0} /\ N \in Nat /\ W \in Nat
      /\ H * H = N
      /\ N <= W
  BY Widths
<1>2. w.imm \in 0..(H - 1)
  BY FieldAssumption DEF PpcFields
<1>3. w.imm \in Word /\ w.imm * H \in Word
  <2> HIDE DEF H, N, W
  <2>1. w.imm * H \in Nat
    BY <1>1, <1>2
  <2>2. w.imm * H <= (H - 1) * H
    BY <1>1, <1>2
  <2>3. (H - 1) * H = N - H
    BY <1>1
  <2>4. w.imm * H \in 0..(W - 1)
    BY <1>1, <2>1, <2>2, <2>3
  <2>5. w.imm <= w.imm * H
    BY <1>1, <1>2
  <2>6. w.imm \in 0..(W - 1)
    BY <1>1, <1>2, <2>4, <2>5
  <2> QED
    BY <2>4, <2>6 DEF Word, W
<1>4. w.imm \in Int /\ w.imm * H \in Int /\ p \in Int /\ InsnLen \in Nat \ {0}
  BY <1>3, WidthAssumption DEF Word
<1>5. simm(w) \in Word /\ SignExtend(w.imm * H, NarrowBits) \in Word
  BY <1>4, SignExtendIsWord DEF simm
<1>6. next_pc(p) \in Word
  BY <1>4, TruncIsWord DEF next_pc
<1>7. ASSUME NEW field \in Int, NEW bits \in {HalfBits, LiBits}
      PROVE  Target(w, p, field, bits) \in Word
  <2> DEFINE off == Signed(field - (field % InsnLen), bits)
  <2>1. off \in Int
    <3>1. field - (field % InsnLen) \in Int
      BY <1>4
    <3>2. bits \in 1..WideBits
      BY WidthAssumption
    <3> QED
      BY <3>1, <3>2, SignedFacts
  <2>2. Trunc(off, NarrowBits) \in Word
    BY <2>1, TruncIsWord
  <2>3. Trunc(p + off, WideBits) \in Word
    BY <1>4, <2>1, TruncIsWord
  <2> QED
    BY <2>2, <2>3 DEF Target
<1>8. li_target(w, p) \in Word /\ bd_target(w, p) \in Word
  <2>1. w.li \in Int
    BY FieldAssumption DEF PpcFields
  <2> QED
    BY <1>4, <1>7, <2>1 DEF li_target, bd_target
<1> QED
  BY <1>3, <1>5, <1>6, <1>8

LEMMA A64Literals ==
  ASSUME NEW w \in Words["a64"], NEW p \in Word
  PROVE  /\ w.imm \in Word
         /\ Trunc(w.imm * 2 ^ (w.hw * HalfBits), WideBits) \in Word
         /\ A64Target(w, p) \in Word
         /\ next_pc(p) \in Word
<1>1. A64Fields(w) /\ p \in Int /\ InsnLen \in Int
  BY FieldAssumption, WidthAssumption DEF Word
<1>2. w.imm \in Word /\ w.imm \in Int /\ w.off \in Int /\ w.hw \in 0..3
  BY <1>1 DEF A64Fields, Word
<1>3. 2 ^ (w.hw * HalfBits) \in Int
  <2>1. w.hw * HalfBits \in 0..(WideBits + 1)
    BY <1>2, WidthAssumption
  <2> QED
    BY <2>1, Power
<1>4. w.imm * 2 ^ (w.hw * HalfBits) \in Int
  BY <1>2, <1>3
<1>5. p + w.off * InsnLen \in Int /\ p + InsnLen \in Int
  BY <1>1, <1>2
<1> QED
  BY <1>2, <1>4, <1>5, TruncIsWord DEF A64Target, next_pc

LEMMA WordIsOperand ==
  ASSUME NEW ops, NEW x \in Word
  PROVE  Operand(ops, x)
BY LiteralAssumption DEF Operand

-----------------------------------------------------------------------------
(* The pieces that the instructions are lowered with.                      *)

LEMMA YieldsOperand ==
  ASSUME NEW bd, NEW c, NEW n, Yields(bd, c, n)
  PROVE  /\ Open(c, n)
         /\ c.at = bd.at
         /\ Operand(c.ops, Result(c))
         /\ \A x : Operand(bd.ops, x) => Operand(c.ops, x)
BY DEF Yields, Operand

LEMMA ReadsOperand ==
  ASSUME NEW bd, NEW c, NEW n, NEW r \in CachedReg, Reads(bd, c, r, n)
  PROVE  /\ Open(c, n)
         /\ Held(c, r)
         /\ Operand(c.ops, c.at[r])
         /\ \A q \in CachedReg : Held(bd, q) => Held(c, q)
         /\ \A x : Operand(bd.ops, x) => Operand(c.ops, x)
BY HeldIsOperand DEF Reads, Operand, Held

(* The result of an op is written to a register.                           *)
LEMMA ResultWritten ==
  ASSUME NEW bd, NEW c, NEW n, Yields(bd, c, n), NEW r \in CachedReg
  PROVE  LET d == write_reg(c, r, Result(c))
         IN  /\ Open(d, n)
             /\ d.ops = c.ops
             /\ Held(d, r)
<1>1. /\ Open(c, n)
      /\ Result(c) \in VReg
      /\ Defined(c.ops, Result(c))
      /\ c.at \in [CachedReg -> VReg \cup {NoReg}]
  BY DEF Yields, Open, Built
<1> DEFINE d == write_reg(c, r, Result(c))
<1>2. Open(d, n) /\ d.ops = c.ops /\ d.at = [c.at EXCEPT ![r] = Result(c)]
  BY <1>1, RegWritten
<1> HIDE DEF d
<1>3. Held(d, r)
  BY <1>1, <1>2, NoRegAssumption DEF Held
<1> QED
  BY <1>2, <1>3 DEF d

LEMMA GprWrittenBack ==
  ASSUME NEW bd, NEW c, NEW n, Yields(bd, c, n), NEW k \in Indices
  PROVE  LET d == WriteBack(c, k)
         IN  /\ Open(d, n)
             /\ d.ops = c.ops
             /\ Held(d, Gpr(k))
<1>1. Gpr(k) \in CachedReg
  BY Cached
<1> QED
  BY <1>1, ResultWritten DEF WriteBack

LEMMA BaseRead ==
  ASSUME NEW bd, NEW n \in 0..(VRegs - 1), Open(bd, n), NEW ra \in Indices
  PROVE  LET c == read_gpr_ra(bd, ra)
         IN  /\ Open(c, n + 1)
             /\ Operand(c.ops, GprOrZero(c, ra))
<1>1. CASE ra = 0
  <2>1. Open(bd, n + 1)
    BY RegsLimited, OpenLonger
  <2>2. Operand(bd.ops, 0)
    BY SmallWords, WordIsOperand
  <2> QED
    BY <1>1, <2>1, <2>2 DEF read_gpr_ra, GprOrZero
<1>2. CASE ra # 0
  <2> DEFINE c == read_reg(bd, Gpr(ra))
  <2>1. Gpr(ra) \in CachedReg
    BY Cached
  <2>2. Reads(bd, c, Gpr(ra), n + 1)
    BY <2>1, RegRead
  <2> HIDE DEF c
  <2>3. Open(c, n + 1) /\ Operand(c.ops, c.at[Gpr(ra)])
    BY <2>1, <2>2, ReadsOperand
  <2> QED
    BY <1>2, <2>3 DEF read_gpr_ra, GprOrZero, c
<1> QED
  BY <1>1, <1>2

LEMMA Recorded ==
  ASSUME NEW bd, NEW n \in Nat, n + 4 <= VRegs, Open(bd, n),
         NEW k \in Indices, Held(bd, Gpr(k)), NEW w
  PROVE  Open(Record(bd, w, k), n + 4)
<1>1. Gpr(k) \in CachedReg
  BY Cached
<1>2. Operand(bd.ops, bd.at[Gpr(k)])
  BY <1>1, HeldIsOperand
<1>3. Drops(bd, emit_rc0_from_result(bd, bd.at[Gpr(k)], FALSE), cr, n + 4)
  <2>1. 2 ^ WideBits - 1 \in Imm /\ 2 \in Imm
    BY SmallWords, LiteralAssumption
  <2> QED
    BY <1>2, <2>1, Rc0Emitted
<1>4. Open(bd, n + 4)
  BY OpenLonger
<1> QED
  BY <1>3, <1>4 DEF Record, Drops

LEMMA AddImmLowered ==
  ASSUME NEW bd, NEW n \in Nat, n + 2 <= VRegs, Open(bd, n),
         NEW w, w.ra \in Indices, w.rd \in Indices, NEW x \in Word
  PROVE  Open(LowerAddImm(bd, w, x), n + 2)
<1> DEFINE r == read_gpr_ra(bd, w.ra)
           e == emit_binary(r, "add", FALSE, GprOrZero(r, w.ra), x)
<1>1. n \in 0..(VRegs - 1) /\ n + 1 \in 0..(VRegs - 1) /\ (n + 1) + 1 = n + 2
  BY RegsLimited
<1>2. Open(r, n + 1) /\ Operand(r.ops, GprOrZero(r, w.ra)) /\ Operand(r.ops, x)
  BY <1>1, BaseRead, WordIsOperand
<1>3. Yields(r, e, (n + 1) + 1)
  <2>1. "add" \in aluNames
    BY DEF aluNames
  <2> HIDE DEF r
  <2> QED
    BY <1>1, <1>2, <2>1, Binary
<1>4. LowerAddImm(bd, w, x) = WriteBack(e, w.rd)
  BY DEF LowerAddImm
<1> HIDE DEF e, r
<1> QED
  BY <1>1, <1>3, <1>4, GprWrittenBack

LEMMA LogicImmLowered ==
  ASSUME NEW bd, NEW n \in Nat, n + 2 <= VRegs, Open(bd, n),
         NEW w, w.ra \in Indices, w.rd \in Indices,
         NEW name \in aluNames, NEW x \in Word
  PROVE  /\ Open(LowerLogicImm(bd, w, name, x), n + 2)
         /\ Held(LowerLogicImm(bd, w, name, x), Gpr(w.ra))
<1> DEFINE r == read_reg(bd, Gpr(w.rd))
           e == emit_binary(r, name, FALSE, r.at[Gpr(w.rd)], x)
<1>1. n \in 0..(VRegs - 1) /\ n + 1 \in 0..(VRegs - 1) /\ (n + 1) + 1 = n + 2
  BY RegsLimited
<1>2. Gpr(w.rd) \in CachedReg
  BY Cached
<1>3. LowerLogicImm(bd, w, name, x) = WriteBack(e, w.ra)
  BY DEF LowerLogicImm
<1>4. Reads(bd, r, Gpr(w.rd), n + 1)
  BY <1>1, <1>2, RegRead
<1> HIDE DEF r
<1>5. Open(r, n + 1) /\ Operand(r.ops, r.at[Gpr(w.rd)]) /\ Operand(r.ops, x)
  BY <1>2, <1>4, ReadsOperand, WordIsOperand
<1>6. Yields(r, e, (n + 1) + 1)
  BY <1>1, <1>5, Binary
<1> HIDE DEF e
<1> QED
  BY <1>1, <1>3, <1>6, GprWrittenBack

LEMMA AluLowered ==
  ASSUME NEW bd, NEW n \in Nat, n + 7 <= VRegs, Open(bd, n), NEW w,
         NEW name \in aluNames,
         NEW first \in Indices, NEW second \in Indices, NEW dst \in Indices
  PROVE  Open(LowerAlu(bd, w, name, first, second, dst), n + 7)
<1> DEFINE r == read_reg(bd, Gpr(first))
           s == read_reg(r, Gpr(second))
           e == emit_binary(s, name, FALSE, s.at[Gpr(first)], s.at[Gpr(second)])
           d == WriteBack(e, dst)
<1>1. /\ n \in 0..(VRegs - 1)
      /\ n + 1 \in 0..(VRegs - 1)
      /\ n + 2 \in 0..(VRegs - 1)
      /\ (n + 1) + 1 = n + 2
      /\ (n + 2) + 1 = n + 3
      /\ n + 3 \in Nat /\ (n + 3) + 4 <= VRegs
      /\ (n + 3) + 4 = n + 7
  BY RegsLimited
<1>2. Gpr(first) \in CachedReg /\ Gpr(second) \in CachedReg
  BY Cached
<1>3. LowerAlu(bd, w, name, first, second, dst) = Record(d, w, dst)
  BY DEF LowerAlu
<1>4. Reads(bd, r, Gpr(first), n + 1)
  BY <1>1, <1>2, RegRead
<1> HIDE DEF r
<1>5. Open(r, n + 1) /\ Held(r, Gpr(first))
  BY <1>4 DEF Reads
<1>6. Reads(r, s, Gpr(second), (n + 1) + 1)
  BY <1>1, <1>2, <1>5, RegRead
<1> HIDE DEF s
<1>7. /\ Open(s, n + 2)
      /\ Held(s, Gpr(first))
      /\ Operand(s.ops, s.at[Gpr(second)])
  BY <1>1, <1>2, <1>5, <1>6, ReadsOperand
<1>8. Operand(s.ops, s.at[Gpr(first)])
  BY <1>2, <1>7, HeldIsOperand
<1>9. Yields(s, e, (n + 2) + 1)
  BY <1>1, <1>7, <1>8, Binary
<1> HIDE DEF e
<1>10. Open(d, n + 3) /\ Held(d, Gpr(dst))
  BY <1>1, <1>9, GprWrittenBack
<1> HIDE DEF d
<1>11. Open(Record(d, w, dst), (n + 3) + 4)
  BY <1>1, <1>10, Recorded
<1> QED
  BY <1>1, <1>3, <1>11

(* Writing what has a value leaves everything else as it is.               *)
LEMMA OperandWritten ==
  ASSUME NEW bd, NEW n, Open(bd, n), NEW r \in CachedReg, NEW v \in VReg,
         Operand(bd.ops, v)
  PROVE  /\ Open(write_reg(bd, r, v), n)
         /\ write_reg(bd, r, v).ops = bd.ops
<1>1. Defined(bd.ops, v)
  BY ImmAssumption DEF Operand
<1> DEFINE c == write_reg(bd, r, v)
<1>2. /\ Open(c, n)
      /\ c.ops = bd.ops
      /\ c.at = [bd.at EXCEPT ![r] = v]
  BY <1>1, RegWritten
<1> QED
  BY <1>2

LEMMA EaLowered ==
  ASSUME NEW bd, NEW n \in Nat, n + 2 <= VRegs, Open(bd, n),
         NEW w, w.ra \in Indices, simm(w) \in Word
  PROVE  \E r : Yields(r, LowerEa(bd, w), n + 2)
<1> DEFINE r == read_gpr_ra(bd, w.ra)
           e == emit_binary(r, "add", FALSE, GprOrZero(r, w.ra), simm(w))
<1>1. n \in 0..(VRegs - 1) /\ n + 1 \in 0..(VRegs - 1) /\ (n + 1) + 1 = n + 2
  BY RegsLimited
<1>2. Open(r, n + 1) /\ Operand(r.ops, GprOrZero(r, w.ra)) /\ Operand(r.ops, simm(w))
  BY <1>1, BaseRead, WordIsOperand
<1>3. LowerEa(bd, w) = e
  BY DEF LowerEa
<1>4. Yields(r, e, (n + 1) + 1)
  <2>1. "add" \in aluNames
    BY DEF aluNames
  <2> HIDE DEF r
  <2> QED
    BY <1>1, <1>2, <2>1, Binary
<1> HIDE DEF e, r
<1> QED
  BY <1>1, <1>3, <1>4

LEMMA LoadLowered ==
  ASSUME NEW bd, NEW n \in Nat, n + 3 <= VRegs, Open(bd, n),
         NEW w, w.ra \in Indices, w.rd \in Indices, simm(w) \in Word,
         NEW bytes, NEW update \in BOOLEAN
  PROVE  Open(LowerLoad(bd, w, bytes, update), n + 3)
<1> DEFINE ea == LowerEa(bd, w)
           kind == MemOp("load", bytes, TRUE)
           args == <<Result(ea)>>
           e  == Define(ea, kind, args)
           l  == WriteBack(e, w.rd)
<1>1. /\ n + 2 <= VRegs
      /\ n + 2 \in 0..(VRegs - 1)
      /\ (n + 2) + 1 = n + 3
  BY RegsLimited
<1>2. Gpr(w.ra) \in CachedReg
  BY Cached
<1>3. LowerLoad(bd, w, bytes, update)
        = IF update THEN write_reg(l, Gpr(w.ra), Result(ea)) ELSE l
  BY DEF LowerLoad
<1>4. PICK r : Yields(r, ea, n + 2)
  BY <1>1, EaLowered
<1> HIDE DEF ea
<1>5. Open(ea, n + 2) /\ Operand(ea.ops, Result(ea)) /\ Result(ea) \in VReg
  BY <1>4, YieldsOperand DEF Yields
<1>6. /\ \A j \in DOMAIN args : Operand(ea.ops, args[j])
      /\ kind.name \in aluNames \cup readNames
      /\ kind.name \notin aluNames
  <2>1. \A j \in DOMAIN args : Operand(ea.ops, args[j])
    BY <1>5, OperandAlone
  <2>2. kind.name = "load"
    BY DEF MemOp
  <2> HIDE DEF kind, args
  <2> QED
    BY <2>1, <2>2 DEF aluNames, readNames
<1> HIDE DEF kind, args
<1>7. Yields(ea, e, (n + 2) + 1)
  BY <1>1, <1>5, <1>6, Valued
<1> HIDE DEF e
<1>8. Operand(e.ops, Result(ea))
  BY <1>5, <1>7, YieldsOperand
<1>9. Open(l, n + 3) /\ l.ops = e.ops
  BY <1>1, <1>7, GprWrittenBack
<1> HIDE DEF l
<1>10. Open(write_reg(l, Gpr(w.ra), Result(ea)), n + 3)
  BY <1>2, <1>5, <1>8, <1>9, OperandWritten
<1> QED
  BY <1>3, <1>9, <1>10

LEMMA StoreLowered ==
  ASSUME NEW bd, NEW n \in Nat, n + 3 <= VRegs, Open(bd, n),
         NEW w, w.ra \in Indices, w.rd \in Indices, simm(w) \in Word,
         NEW bytes, NEW update \in BOOLEAN
  PROVE  Open(LowerStore(bd, w, bytes, update), n + 3)
<1> DEFINE ea == LowerEa(bd, w)
           r  == read_reg(ea, Gpr(w.rd))
           kind == MemOp("store", bytes, TRUE)
           args == <<Result(ea), r.at[Gpr(w.rd)]>>
           st == Push(r, kind, args)
<1>1. /\ n + 2 <= VRegs
      /\ n + 2 \in 0..(VRegs - 1)
      /\ (n + 2) + 1 = n + 3
      /\ n + 3 \in Nat
  BY RegsLimited
<1>2. Gpr(w.ra) \in CachedReg /\ Gpr(w.rd) \in CachedReg
  BY Cached
<1>3. LowerStore(bd, w, bytes, update)
        = IF update THEN write_reg(st, Gpr(w.ra), Result(ea)) ELSE st
  BY DEF LowerStore
<1>4. PICK base : Yields(base, ea, n + 2)
  BY <1>1, EaLowered
<1> HIDE DEF ea
<1>5. Open(ea, n + 2) /\ Operand(ea.ops, Result(ea)) /\ Result(ea) \in VReg
  BY <1>4, YieldsOperand DEF Yields
<1>6. Reads(ea, r, Gpr(w.rd), (n + 2) + 1)
  BY <1>1, <1>2, <1>5, RegRead
<1> HIDE DEF r
<1>7. /\ Open(r, n + 3)
      /\ Operand(r.ops, r.at[Gpr(w.rd)])
      /\ Operand(r.ops, Result(ea))
  BY <1>1, <1>2, <1>5, <1>6, ReadsOperand
<1>8. /\ \A j \in DOMAIN args : Operand(r.ops, args[j])
      /\ kind.name \in effectNames
      /\ kind.name \notin exitNames
  <2>1. \A j \in DOMAIN args : Operand(r.ops, args[j])
    BY <1>7, OperandPair
  <2>2. kind.name = "store"
    BY DEF MemOp
  <2> HIDE DEF kind, args
  <2> QED
    BY <2>1, <2>2 DEF effectNames, exitNames
<1> HIDE DEF kind, args
<1>9. Open(st, n + 3) /\ \A v : Defined(r.ops, v) => Defined(st.ops, v)
  BY <1>1, <1>7, <1>8, Pushed
<1> HIDE DEF st
<1>10. Operand(st.ops, Result(ea))
  BY <1>7, <1>9 DEF Operand
<1>11. Open(write_reg(st, Gpr(w.ra), Result(ea)), n + 3)
  BY <1>2, <1>5, <1>9, <1>10, OperandWritten
<1> QED
  BY <1>3, <1>9, <1>11

LEMMA MaskIsWord ==
  ASSUME NEW x \in 0..(NarrowBits - 1), NEW y \in 0..(NarrowBits - 1)
  PROVE  mask_mbme(x, y) \in Word
<1> DEFINE N == 2 ^ NarrowBits
           start == 2 ^ (NarrowBits - x) - 1
           end   == N - 2 ^ (NarrowBits - 1 - y)
<1>1. /\ NarrowBits \in 0..WideBits
      /\ NarrowBits - x \in 0..NarrowBits
      /\ NarrowBits - 1 - y \in 0..NarrowBits
  BY Widths, BitsAssumption
<1>2. /\ 2 ^ (NarrowBits - x) \in Nat \ {0} /\ 2 ^ (NarrowBits - x) <= N
      /\ 2 ^ (NarrowBits - 1 - y) \in Nat \ {0} /\ 2 ^ (NarrowBits - 1 - y) <= N
      /\ N \in Nat
  BY <1>1, PowerGrows
<1>3. start \in 0..(N - 1) /\ end \in 0..(N - 1)
  BY <1>2
<1> HIDE DEF start, end
<1>4. {Alu("and", NarrowBits, start, end), Alu("or", NarrowBits, start, end)} \subseteq 0..(N - 1)
  BY <1>1, <1>3, LogicBits
<1>5. mask_mbme(x, y) \in 0..(N - 1)
  BY <1>4 DEF mask_mbme, start, end
<1> QED
  BY <1>2, <1>5, Widths DEF Word

LEMMA RlwinmLowered ==
  ASSUME NEW bd, NEW n \in Nat, n + 9 <= VRegs, Open(bd, n),
         NEW w, w.ra \in Indices, w.rd \in Indices,
         w.rb \in 0..(NarrowBits - 1), w.mb \in 0..(NarrowBits - 1),
         w.me \in 0..(NarrowBits - 1)
  PROVE  Open(LowerRlwinm(bd, w), n + 9)
<1> DEFINE r    == read_reg(bd, Gpr(w.rd))
           v    == r.at[Gpr(w.rd)]
           hi   == emit_binary(r, "shl", FALSE, v, w.rb)
           lo   == emit_binary(hi, "shr", FALSE, v, NarrowBits - w.rb)
           both == emit_binary(lo, "or", FALSE, Result(hi), Result(lo))
           mask == mask_mbme(w.mb, w.me)
           alone == emit_binary(r, "and", FALSE, v, mask)
           anded == emit_binary(both, "and", FALSE, Result(both), mask)
           e    == IF w.rb = 0 THEN alone ELSE anded
           d    == WriteBack(e, w.ra)
<1>1. /\ n \in 0..(VRegs - 1)
      /\ n + 1 \in 0..(VRegs - 1) /\ (n + 1) + 1 = n + 2
      /\ n + 2 \in 0..(VRegs - 1) /\ (n + 2) + 1 = n + 3
      /\ n + 3 \in 0..(VRegs - 1) /\ (n + 3) + 1 = n + 4
      /\ n + 4 \in 0..(VRegs - 1) /\ (n + 4) + 1 = n + 5
      /\ n + 5 \in Nat /\ (n + 5) + 4 <= VRegs /\ (n + 5) + 4 = n + 9
      /\ n + 1 \in Nat /\ n + 2 \in Nat /\ n + 2 <= n + 5
  BY RegsLimited
<1>2. Gpr(w.rd) \in CachedReg
  BY Cached
<1>3. /\ "shl" \in aluNames /\ "shr" \in aluNames
      /\ "or" \in aluNames /\ "and" \in aluNames
  BY DEF aluNames
<1>4. w.rb \in Word /\ NarrowBits - w.rb \in Word /\ mask \in Word
  <2>1. NarrowBits \in 1..(2 ^ WideBits - 1) /\ 2 ^ WideBits \in Nat
    BY Widths
  <2>2. mask \in Word
    BY MaskIsWord
  <2> QED
    BY <2>1, <2>2 DEF Word
<1>5. LowerRlwinm(bd, w) = Record(d, w, w.ra)
  BY DEF LowerRlwinm
<1> HIDE DEF mask
<1>6. Reads(bd, r, Gpr(w.rd), n + 1)
  BY <1>1, <1>2, RegRead
<1> HIDE DEF r
<1>7. Open(r, n + 1) /\ Operand(r.ops, v)
  BY <1>2, <1>6, ReadsOperand
<1> HIDE DEF v
<1>8. Yields(r, hi, (n + 1) + 1)
  <2>1. Operand(r.ops, w.rb)
    BY <1>4, WordIsOperand
  <2> QED
    BY <1>1, <1>3, <1>7, <2>1, Binary
<1> HIDE DEF hi
<1>9. Open(hi, n + 2) /\ Operand(hi.ops, v) /\ Operand(hi.ops, Result(hi))
  BY <1>1, <1>7, <1>8, YieldsOperand
<1>10. Yields(hi, lo, (n + 2) + 1)
  <2>1. Operand(hi.ops, NarrowBits - w.rb)
    BY <1>4, WordIsOperand
  <2> QED
    BY <1>1, <1>3, <1>9, <2>1, Binary
<1> HIDE DEF lo
<1>11. Open(lo, n + 3) /\ Operand(lo.ops, Result(hi)) /\ Operand(lo.ops, Result(lo))
  BY <1>1, <1>9, <1>10, YieldsOperand
<1>12. Yields(lo, both, (n + 3) + 1)
  BY <1>1, <1>3, <1>11, Binary
<1> HIDE DEF both
<1>13. Open(both, n + 4) /\ Operand(both.ops, Result(both)) /\ Operand(both.ops, mask)
  BY <1>1, <1>4, <1>12, YieldsOperand, WordIsOperand
<1>14. Yields(both, anded, (n + 4) + 1)
  BY <1>1, <1>3, <1>13, Binary
<1> HIDE DEF anded
<1>15. Yields(r, alone, (n + 1) + 1)
  <2>1. Operand(r.ops, mask)
    BY <1>4, WordIsOperand
  <2> QED
    BY <1>1, <1>3, <1>7, <2>1, Binary
<1> HIDE DEF alone
<1>16. Open(d, n + 5) /\ Held(d, Gpr(w.ra))
  <2>1. CASE w.rb = 0
    <3>1. Open(d, n + 2) /\ Held(d, Gpr(w.ra))
      BY <1>1, <1>15, <2>1, GprWrittenBack
    <3> QED
      BY <1>1, <3>1, OpenLonger
  <2>2. CASE w.rb # 0
    BY <1>1, <1>14, <2>2, GprWrittenBack
  <2> QED
    BY <2>1, <2>2
<1> HIDE DEF d
<1>17. Open(Record(d, w, w.ra), (n + 5) + 4)
  BY <1>1, <1>16, Recorded
<1> QED
  BY <1>1, <1>5, <1>17

LEMMA MfsprLowered ==
  ASSUME NEW bd, NEW n \in Nat, n + 1 <= VRegs, Open(bd, n), NEW w, w.rd \in Indices
  PROVE  Open(LowerMfspr(bd, w), n + 1)
<1> DEFINE q == SprReg(spr_field(w))
           r == read_reg(bd, q)
           e == Define(bd, Get(q), <<>>)
<1>1. n \in 0..(VRegs - 1)
  BY RegsLimited
<1>2. Gpr(w.rd) \in CachedReg
  BY Cached
<1>3. LowerMfspr(bd, w)
        = IF q \in CachedReg THEN write_reg(r, Gpr(w.rd), r.at[q]) ELSE WriteBack(e, w.rd)
  BY DEF LowerMfspr
<1> HIDE DEF q
<1>4. ASSUME q \in CachedReg
      PROVE  Open(write_reg(r, Gpr(w.rd), r.at[q]), n + 1)
  <2>1. Reads(bd, r, q, n + 1)
    BY <1>1, <1>4, RegRead
  <2> HIDE DEF r
  <2>2. Open(r, n + 1) /\ Operand(r.ops, r.at[q]) /\ r.at[q] \in VReg
    BY <1>4, <2>1, ReadsOperand, HeldIsOperand
  <2> QED
    BY <1>2, <2>2, OperandWritten
<1>5. Open(WriteBack(e, w.rd), n + 1)
  <2>1. Get(q).name \in readNames
    BY DEF Get, readNames
  <2>2. Yields(bd, e, n + 1)
    BY <1>1, <2>1, Got
  <2> HIDE DEF e
  <2> QED
    BY <2>2, GprWrittenBack
<1> QED
  BY <1>3, <1>4, <1>5

LEMMA MtsprLowered ==
  ASSUME NEW bd, NEW n \in Nat, n + 1 <= VRegs, Open(bd, n), NEW w, w.rd \in Indices
  PROVE  Open(LowerMtspr(bd, w), n + 1)
<1> DEFINE q == SprReg(spr_field(w))
           r == read_reg(bd, Gpr(w.rd))
           v == r.at[Gpr(w.rd)]
           args == <<v>>
<1>1. n \in 0..(VRegs - 1) /\ n + 1 \in Nat
  BY RegsLimited
<1>2. Gpr(w.rd) \in CachedReg
  BY Cached
<1>3. LowerMtspr(bd, w)
        = IF q \in CachedReg THEN write_reg(r, q, v) ELSE Push(r, Set(q), args)
  BY DEF LowerMtspr
<1> HIDE DEF q
<1>4. Reads(bd, r, Gpr(w.rd), n + 1)
  BY <1>1, <1>2, RegRead
<1> HIDE DEF r
<1>5. Open(r, n + 1) /\ Operand(r.ops, v) /\ v \in VReg
  BY <1>2, <1>4, ReadsOperand, HeldIsOperand
<1> HIDE DEF v
<1>6. ASSUME q \in CachedReg
      PROVE  Open(write_reg(r, q, v), n + 1)
  BY <1>5, <1>6, OperandWritten
<1>7. Open(Push(r, Set(q), args), n + 1)
  <2>1. Set(q).name \in effectNames /\ Set(q).name \notin exitNames
    BY DEF Set, effectNames, exitNames
  <2>2. \A j \in DOMAIN args : Operand(r.ops, args[j])
    BY <1>5, OperandAlone
  <2> HIDE DEF args
  <2> QED
    BY <1>1, <1>5, <2>1, <2>2, Pushed
<1> QED
  BY <1>3, <1>6, <1>7

LEMMA Linked ==
  ASSUME NEW bd, NEW n \in Nat, n + 1 <= VRegs, Open(bd, n), NEW w,
         NEW p, next_pc(p) \in Word
  PROVE  Open(Link(bd, w, p), n + 1)
<1> DEFINE e == emit_binary(bd, "add", FALSE, next_pc(p), 0)
<1>1. n \in 0..(VRegs - 1)
  BY RegsLimited
<1>2. Yields(bd, e, n + 1)
  <2>1. Operand(bd.ops, next_pc(p)) /\ Operand(bd.ops, 0)
    BY SmallWords, WordIsOperand
  <2>2. "add" \in aluNames
    BY DEF aluNames
  <2> QED
    BY <1>1, <2>1, <2>2, Binary
<1>3. Link(bd, w, p) = IF w.rc THEN write_reg(e, lr, Result(e)) ELSE bd
  BY DEF Link
<1> HIDE DEF e
<1>4. Open(write_reg(e, lr, Result(e)), n + 1)
  BY <1>2, ResultWritten, Cached
<1>5. Open(bd, n + 1)
  BY OpenLonger
<1> QED
  BY <1>3, <1>4, <1>5

LEMMA BclrLowered ==
  ASSUME NEW bd, NEW n \in Nat, n + 2 <= VRegs, Open(bd, n), NEW w,
         NEW p, next_pc(p) \in Word
  PROVE  Ended(LowerBclr(bd, w, p), n + 2)
<1> DEFINE l == Link(bd, w, p)
           r == read_reg(l, lr)
<1>1. n + 1 \in 0..(VRegs - 1) /\ n + 1 <= VRegs /\ (n + 1) + 1 = n + 2 /\ n + 2 \in Nat
  BY RegsLimited
<1>2. Open(l, n + 1)
  BY <1>1, Linked
<1>3. LowerBclr(bd, w, p) = emit_exit_indirect(r, r.at[lr])
  BY DEF LowerBclr
<1> HIDE DEF l
<1>4. Reads(l, r, lr, (n + 1) + 1)
  BY <1>1, <1>2, RegRead, Cached
<1> HIDE DEF r
<1>5. Open(r, n + 2) /\ Operand(r.ops, r.at[lr])
  BY <1>1, <1>4, ReadsOperand, Cached
<1> QED
  BY <1>1, <1>3, <1>5, ExitsEnd

LEMMA BcLowered ==
  ASSUME NEW bd, NEW n \in Nat, n + 3 <= VRegs, Open(bd, n), NEW w,
         NEW p, next_pc(p) \in Word, bd_target(w, p) \in Word
  PROVE  \E k \in n..(n + 3) : Ended(LowerBc(bd, w, p), k)
<1> DEFINE l   == Link(bd, w, p)
           bit == emit_get_cr_bit(l, w.ra)
           not == emit_binary(bit, "xor", FALSE, Result(bit), 1)
           c   == IF BoBit(w, 8) THEN bit ELSE not
<1>1. /\ n + 1 \in 0..(VRegs - 1) /\ n + 1 <= VRegs /\ (n + 1) + 1 = n + 2
      /\ n + 2 \in 0..(VRegs - 1) /\ (n + 2) + 1 = n + 3
      /\ n + 1 \in Nat /\ n + 2 \in Nat /\ n + 3 \in Nat
      /\ {n + 1, n + 2, n + 3} \subseteq n..(n + 3)
  BY RegsLimited
<1>2. Open(l, n + 1)
  BY <1>1, Linked
<1>3. LowerBc(bd, w, p)
        = IF BoBit(w, 16) THEN emit_exit_uncond(l, bd_target(w, p))
          ELSE emit_exit_cond(c, Result(c), bd_target(w, p), next_pc(p))
  BY DEF LowerBc
<1> HIDE DEF l
<1>4. Ended(emit_exit_uncond(l, bd_target(w, p)), n + 1)
  <2>1. Operand(l.ops, bd_target(w, p)) /\ bd_target(w, p) \in Imm
    BY WordIsOperand, LiteralAssumption
  <2> QED
    BY <1>1, <1>2, <2>1, ExitsEnd
<1>5. Yields(l, bit, (n + 1) + 1)
  <2>1. Get(Named("crbit", w.ra)).name \in readNames
    BY DEF Get, readNames
  <2> QED
    BY <1>1, <1>2, <2>1, Got DEF emit_get_cr_bit
<1> HIDE DEF bit
<1>6. Open(bit, n + 2) /\ Operand(bit.ops, Result(bit)) /\ Operand(bit.ops, 1)
  BY <1>1, <1>5, YieldsOperand, SmallWords, WordIsOperand
<1>7. Yields(bit, not, (n + 2) + 1)
  <2>1. "xor" \in aluNames
    BY DEF aluNames
  <2> QED
    BY <1>1, <1>6, <2>1, Binary
<1> HIDE DEF not
<1>8. Open(not, n + 3) /\ Operand(not.ops, Result(not))
  BY <1>1, <1>7, YieldsOperand
<1>9. \E k \in n..(n + 3) : Ended(emit_exit_cond(c, Result(c), bd_target(w, p), next_pc(p)), k)
  <2>1. CASE BoBit(w, 8)
    <3>1. Ended(emit_exit_cond(bit, Result(bit), bd_target(w, p), next_pc(p)), n + 2)
      BY <1>1, <1>6, ExitsEnd
    <3> QED
      BY <1>1, <2>1, <3>1
  <2>2. CASE ~BoBit(w, 8)
    <3>1. Ended(emit_exit_cond(not, Result(not), bd_target(w, p), next_pc(p)), n + 3)
      BY <1>1, <1>8, ExitsEnd
    <3> QED
      BY <1>1, <2>2, <3>1
  <2> QED
    BY <2>1, <2>2
<1> HIDE DEF c
<1> QED
  BY <1>1, <1>3, <1>4, <1>9

LEMMA CrandLowered ==
  ASSUME NEW bd, NEW n \in Nat, n + 3 <= VRegs, Open(bd, n), NEW w
  PROVE  Open(LowerCrand(bd, w), n + 3)
<1> DEFINE x == emit_get_cr_bit(bd, w.ra)
           y == emit_get_cr_bit(x, w.rb)
           v == emit_binary(y, "and", FALSE, Result(x), Result(y))
<1>1. /\ n \in 0..(VRegs - 1)
      /\ n + 1 \in 0..(VRegs - 1) /\ (n + 1) + 1 = n + 2
      /\ n + 2 \in 0..(VRegs - 1) /\ (n + 2) + 1 = n + 3
      /\ n + 3 \in Nat
  BY RegsLimited
<1>2. /\ Get(Named("crbit", w.ra)).name \in readNames
      /\ Get(Named("crbit", w.rb)).name \in readNames
      /\ "and" \in aluNames
  BY DEF Get, readNames, aluNames
<1>3. LowerCrand(bd, w) = emit_set_cr_field(v, w.rd \div 4, Result(v))
  BY DEF LowerCrand
<1>4. Yields(bd, x, n + 1)
  BY <1>1, <1>2, Got DEF emit_get_cr_bit
<1> HIDE DEF x
<1>5. Open(x, n + 1) /\ Operand(x.ops, Result(x))
  BY <1>4, YieldsOperand
<1>6. Yields(x, y, (n + 1) + 1)
  BY <1>1, <1>2, <1>5, Got DEF emit_get_cr_bit
<1> HIDE DEF y
<1>7. Open(y, n + 2) /\ Operand(y.ops, Result(y)) /\ Operand(y.ops, Result(x))
  BY <1>1, <1>5, <1>6, YieldsOperand
<1>8. Yields(y, v, (n + 2) + 1)
  BY <1>1, <1>2, <1>7, Binary
<1> HIDE DEF v
<1>9. Open(v, n + 3) /\ Operand(v.ops, Result(v))
  BY <1>1, <1>8, YieldsOperand
<1>10. Drops(v, emit_set_cr_field(v, w.rd \div 4, Result(v)), cr, n + 3)
  BY <1>1, <1>9, CrFieldSet
<1> QED
  BY <1>3, <1>10 DEF Drops

LEMMA PsAddLowered ==
  ASSUME NEW bd, NEW n \in Nat, n + 3 <= VRegs, Open(bd, n), NEW w,
         w.ra \in Indices, w.rb \in Indices, w.rd \in Indices
  PROVE  Open(LowerPsAdd(bd, w), n + 3)
<1> DEFINE r == read_reg(bd, Vec(w.ra))
           s == read_reg(r, Vec(w.rb))
           kind == [name |-> "vec"]
           args == <<s.at[Vec(w.ra)], s.at[Vec(w.rb)]>>
           v == Define(s, kind, args)
<1>1. /\ n \in 0..(VRegs - 1)
      /\ n + 1 \in 0..(VRegs - 1) /\ (n + 1) + 1 = n + 2
      /\ n + 2 \in 0..(VRegs - 1) /\ (n + 2) + 1 = n + 3
  BY RegsLimited
<1>2. {Vec(w.ra), Vec(w.rb), Vec(w.rd)} \subseteq CachedReg
  BY Cached
<1>3. LowerPsAdd(bd, w) = write_reg(v, Vec(w.rd), Result(v))
  BY DEF LowerPsAdd
<1>4. Reads(bd, r, Vec(w.ra), n + 1)
  BY <1>1, <1>2, RegRead
<1> HIDE DEF r
<1>5. Open(r, n + 1) /\ Held(r, Vec(w.ra))
  BY <1>4 DEF Reads
<1>6. Reads(r, s, Vec(w.rb), (n + 1) + 1)
  BY <1>1, <1>2, <1>5, RegRead
<1> HIDE DEF s
<1>7. /\ Open(s, n + 2)
      /\ Held(s, Vec(w.ra))
      /\ Operand(s.ops, s.at[Vec(w.rb)])
  BY <1>1, <1>2, <1>5, <1>6, ReadsOperand
<1>8. Operand(s.ops, s.at[Vec(w.ra)])
  BY <1>2, <1>7, HeldIsOperand
<1>9. /\ \A j \in DOMAIN args : Operand(s.ops, args[j])
      /\ kind.name \in aluNames \cup readNames
      /\ kind.name \notin aluNames
  <2>1. \A j \in DOMAIN args : Operand(s.ops, args[j])
    BY <1>7, <1>8, OperandPair
  <2>2. kind.name = "vec"
    OBVIOUS
  <2> HIDE DEF args, kind
  <2> QED
    BY <2>1, <2>2 DEF aluNames, readNames
<1> HIDE DEF args, kind
<1>10. Yields(s, v, (n + 2) + 1)
  BY <1>1, <1>7, <1>9, Valued
<1> HIDE DEF v
<1>11. Open(write_reg(v, Vec(w.rd), Result(v)), (n + 2) + 1)
  BY <1>2, <1>10, ResultWritten
<1> QED
  BY <1>1, <1>3, <1>11

LEMMA EndedLonger ==
  ASSUME NEW bd, NEW n \in Nat, NEW k \in Nat, n <= k, Ended(bd, n)
  PROVE  Ended(bd, k)
BY DEF Ended, Built

LEMMA UnimplementedLowered ==
  ASSUME NEW bd, NEW n \in Nat, Open(bd, n)
  PROVE  Open(emit_unimplemented(bd), n)
<1> DEFINE kind == Set(Named("unimplemented", 0))
           none == <<>>
<1>1. kind.name \in effectNames /\ kind.name \notin exitNames
  BY DEF Set, effectNames, exitNames
<1>2. \A j \in DOMAIN none : Operand(bd.ops, none[j])
  BY OperandNone
<1>3. emit_unimplemented(bd) = Push(bd, kind, none)
  BY DEF emit_unimplemented
<1> HIDE DEF kind, none
<1> QED
  BY <1>1, <1>2, <1>3, Pushed

-----------------------------------------------------------------------------
(* The two frontends.                                                      *)

branchNames == {"b", "bclr", "bc"}

LEMMA PpcLowered ==
  ASSUME NEW bd, NEW n \in Nat, n + InsnRegs <= VRegs, Open(bd, n),
         NEW w \in Words["ppc"], NEW p \in Word
  PROVE  LET c == PpcLower(bd, w, p)
         IN  /\ Mnemonic(w) \notin branchNames => Open(c, n + InsnRegs)
             /\ Mnemonic(w) \in branchNames => Ended(c, n + InsnRegs)
<1> DEFINE name == Mnemonic(w)
           c    == PpcLower(bd, w, p)
<1>0. /\ \A k \in 0..9 : n + k \in Nat /\ n + k <= VRegs /\ n + k <= n + 9
      /\ InsnRegs = 9
      /\ VRegs \in Nat
  BY RegsLimited DEF InsnRegs
<1>1. /\ {simm(w), w.imm, w.imm * 2 ^ HalfBits} \subseteq Word
      /\ SignExtend(w.imm * 2 ^ HalfBits, NarrowBits) \in Word
      /\ li_target(w, p) \in Word /\ bd_target(w, p) \in Word
      /\ next_pc(p) \in Word
  BY PpcLiterals
<1>2. /\ name \notin {"b", "bc", "bclr", "crand", "unknown"} => w.rd \in Indices
      /\ name \notin {"b", "bc", "bclr", "crand", "unknown", "mfspr", "mtspr"} =>
           w.ra \in Indices
      /\ name \in {"add", "and", "or", "xor", "subf", "ps_add"} => w.rb \in Indices
      /\ name = "rlwinm" =>
           /\ w.rb \in 0..(NarrowBits - 1)
           /\ w.mb \in 0..(NarrowBits - 1)
           /\ w.me \in 0..(NarrowBits - 1)
  BY FieldAssumption DEF PpcFields
<1>3. {"add", "and", "or", "xor", "sub"} \subseteq aluNames
  BY DEF aluNames
<1>4. CASE name \in {"addi", "addis"}
  <2>1. w.ra \in Indices /\ w.rd \in Indices
    BY <1>2, <1>4
  <2>2. \E x \in Word : c = LowerAddImm(bd, w, x)
    BY <1>1, <1>4 DEF PpcLower
  <2>3. Open(c, n + 2)
    BY <1>0, <2>1, <2>2, AddImmLowered
  <2>4. Open(c, n + 9)
    BY <1>0, <2>3, OpenLonger
  <2> QED
    BY <1>0, <1>4, <2>4 DEF branchNames
<1>5. CASE name \in {"ori", "oris", "xori"}
  <2>1. w.ra \in Indices /\ w.rd \in Indices
    BY <1>2, <1>5
  <2>2. \E x \in Word, alu \in aluNames : c = LowerLogicImm(bd, w, alu, x)
    BY <1>1, <1>3, <1>5 DEF PpcLower
  <2>3. Open(c, n + 2)
    BY <1>0, <2>1, <2>2, LogicImmLowered
  <2>4. Open(c, n + 9)
    BY <1>0, <2>3, OpenLonger
  <2> QED
    BY <1>0, <1>5, <2>4 DEF branchNames
<1>6. CASE name = "andi."
  <2> DEFINE a == LowerLogicImm(bd, w, "and", w.imm)
  <2>1. w.ra \in Indices /\ w.rd \in Indices
    BY <1>2, <1>6
  <2>2. c = emit_rc0_from_result(a, a.at[Gpr(w.ra)], FALSE)
    BY <1>6 DEF PpcLower
  <2>3. "and" \in aluNames /\ w.imm \in Word /\ n + 2 <= VRegs
    BY <1>0, <1>1, <1>3
  <2>4. Open(a, n + 2) /\ Held(a, Gpr(w.ra))
    BY <2>1, <2>3, LogicImmLowered
  <2> HIDE DEF a
  <2>5. Operand(a.ops, a.at[Gpr(w.ra)])
    BY <2>1, <2>4, HeldIsOperand, Cached
  <2>6. 2 ^ WideBits - 1 \in Imm /\ 2 \in Imm
    BY SmallWords, LiteralAssumption
  <2>7. n + 2 \in Nat /\ (n + 2) + 4 <= VRegs /\ (n + 2) + 4 = n + 6
    BY <1>0
  <2>8. Drops(a, c, cr, (n + 2) + 4)
    BY <2>2, <2>4, <2>5, <2>6, <2>7, Rc0Emitted
  <2>9. Open(c, n + 6)
    BY <2>7, <2>8 DEF Drops
  <2>10. Open(c, n + 9)
    BY <1>0, <2>9, OpenLonger
  <2> QED
    BY <1>0, <1>6, <2>10 DEF branchNames
<1>7. CASE name \in {"add", "and", "or", "xor"}
  <2>1. w.ra \in Indices /\ w.rb \in Indices /\ w.rd \in Indices
    BY <1>2, <1>7
  <2>2. \E alu \in aluNames, x \in Indices, y \in Indices, d \in Indices :
          c = LowerAlu(bd, w, alu, x, y, d)
    BY <1>3, <1>7, <2>1 DEF PpcLower
  <2>3. Open(c, n + 7)
    BY <1>0, <2>2, AluLowered
  <2>4. Open(c, n + 9)
    BY <1>0, <2>3, OpenLonger
  <2> QED
    BY <1>0, <1>7, <2>4 DEF branchNames
<1>8. CASE name = "subf"
  <2> DEFINE r == read_reg(bd, Gpr(w.ra))
  <2>1. w.ra \in Indices /\ w.rb \in Indices /\ w.rd \in Indices /\ Gpr(w.ra) \in CachedReg
    BY <1>2, <1>8, Cached
  <2>2. c = LowerAlu(r, w, "sub", w.rb, w.ra, w.rd)
    BY <1>8 DEF PpcLower
  <2>3. /\ n \in 0..(VRegs - 1)
        /\ n + 1 \in Nat /\ (n + 1) + 7 <= VRegs /\ (n + 1) + 7 = n + 8
        /\ "sub" \in aluNames
    BY <1>0, <1>3
  <2>4. Reads(bd, r, Gpr(w.ra), n + 1)
    BY <2>1, <2>3, RegRead
  <2>5. Open(r, n + 1)
    BY <2>4 DEF Reads
  <2> HIDE DEF r
  <2>6. Open(c, (n + 1) + 7)
    BY <2>1, <2>2, <2>3, <2>5, AluLowered
  <2>7. Open(c, n + 9)
    BY <1>0, <2>3, <2>6, OpenLonger
  <2> QED
    BY <1>0, <1>8, <2>7 DEF branchNames
<1>9. CASE name \in {"lwz", "lwzu", "lbz"}
  <2>1. w.ra \in Indices /\ w.rd \in Indices
    BY <1>2, <1>9
  <2>2. \E bytes : \E update \in BOOLEAN : c = LowerLoad(bd, w, bytes, update)
    BY <1>9 DEF PpcLower
  <2>3. Open(c, n + 3)
    BY <1>0, <1>1, <2>1, <2>2, LoadLowered
  <2>4. Open(c, n + 9)
    BY <1>0, <2>3, OpenLonger
  <2> QED
    BY <1>0, <1>9, <2>4 DEF branchNames
<1>10. CASE name \in {"stw", "stwu", "stb"}
  <2>1. w.ra \in Indices /\ w.rd \in Indices
    BY <1>2, <1>10
  <2>2. \E bytes : \E update \in BOOLEAN : c = LowerStore(bd, w, bytes, update)
    BY <1>10 DEF PpcLower
  <2>3. Open(c, n + 3)
    BY <1>0, <1>1, <2>1, <2>2, StoreLowered
  <2>4. Open(c, n + 9)
    BY <1>0, <2>3, OpenLonger
  <2> QED
    BY <1>0, <1>10, <2>4 DEF branchNames
<1>11. CASE name = "rlwinm"
  <2>1. c = LowerRlwinm(bd, w)
    BY <1>11 DEF PpcLower
  <2>2. Open(c, n + 9)
    BY <1>0, <1>2, <1>11, <2>1, RlwinmLowered
  <2> QED
    BY <1>0, <1>11, <2>2 DEF branchNames
<1>12. CASE name \in {"mfspr", "mtspr"}
  <2>1. w.rd \in Indices
    BY <1>2, <1>12
  <2>2. c = LowerMfspr(bd, w) \/ c = LowerMtspr(bd, w)
    BY <1>12 DEF PpcLower
  <2>3. Open(c, n + 1)
    BY <1>0, <2>1, <2>2, MfsprLowered, MtsprLowered
  <2>4. Open(c, n + 9)
    BY <1>0, <2>3, OpenLonger
  <2> QED
    BY <1>0, <1>12, <2>4 DEF branchNames
<1>13. CASE name = "b"
  <2> DEFINE l == Link(bd, w, p)
  <2>1. c = emit_exit_uncond(l, li_target(w, p))
    BY <1>13 DEF PpcLower
  <2>2. Open(l, n + 1)
    BY <1>0, <1>1, Linked
  <2> HIDE DEF l
  <2>3. Operand(l.ops, li_target(w, p)) /\ li_target(w, p) \in Imm
    BY <1>1, WordIsOperand, LiteralAssumption
  <2>4. Ended(c, n + 1)
    BY <1>0, <2>1, <2>2, <2>3, ExitsEnd
  <2>5. Ended(c, n + 9)
    BY <1>0, <2>4, EndedLonger
  <2> QED
    BY <1>0, <1>13, <2>5 DEF branchNames
<1>14. CASE name = "bclr"
  <2>1. c = LowerBclr(bd, w, p)
    BY <1>14 DEF PpcLower
  <2>2. Ended(c, n + 2)
    BY <1>0, <1>1, <2>1, BclrLowered
  <2>3. Ended(c, n + 9)
    BY <1>0, <2>2, EndedLonger
  <2> QED
    BY <1>0, <1>14, <2>3 DEF branchNames
<1>15. CASE name = "bc"
  <2>1. c = LowerBc(bd, w, p)
    BY <1>15 DEF PpcLower
  <2>2. PICK k \in n..(n + 3) : Ended(c, k)
    BY <1>0, <1>1, <2>1, BcLowered
  <2>3. k \in Nat /\ k <= n + 9 /\ n + 9 \in Nat
    OBVIOUS
  <2>4. Ended(c, n + 9)
    BY <2>2, <2>3, EndedLonger
  <2> QED
    BY <1>0, <1>15, <2>4 DEF branchNames
<1>16. CASE name = "crand"
  <2>1. c = LowerCrand(bd, w)
    BY <1>16 DEF PpcLower
  <2>2. Open(c, n + 3)
    BY <1>0, <2>1, CrandLowered
  <2>3. Open(c, n + 9)
    BY <1>0, <2>2, OpenLonger
  <2> QED
    BY <1>0, <1>16, <2>3 DEF branchNames
<1>17. CASE name = "ps_add"
  <2>1. c = LowerPsAdd(bd, w)
    BY <1>17 DEF PpcLower
  <2>2. w.ra \in Indices /\ w.rb \in Indices /\ w.rd \in Indices
    BY <1>2, <1>17
  <2>3. Open(c, n + 3)
    BY <1>0, <2>1, <2>2, PsAddLowered
  <2>4. Open(c, n + 9)
    BY <1>0, <2>3, OpenLonger
  <2> QED
    BY <1>0, <1>17, <2>4 DEF branchNames
<1>18. CASE name \notin {"addi", "addis", "ori", "oris", "xori", "andi.", "add", "and", "or",
                         "xor", "subf", "lwz", "lwzu", "lbz", "stw", "stwu", "stb", "rlwinm",
                         "mfspr", "mtspr", "b", "bclr", "bc", "crand", "ps_add"}
  <2>1. c = emit_unimplemented(bd)
    BY <1>18 DEF PpcLower
  <2>2. Open(c, n)
    BY <2>1, UnimplementedLowered
  <2>3. Open(c, n + 9)
    BY <1>0, <2>2, OpenLonger
  <2> QED
    BY <1>0, <1>18, <2>3 DEF branchNames
<1> HIDE DEF name, c
<1> QED
  BY <1>4, <1>5, <1>6, <1>7, <1>8, <1>9, <1>10, <1>11, <1>12, <1>13, <1>14, <1>15, <1>16,
     <1>17, <1>18 DEF name, c

LEMMA WrittenUnlessZero ==
  ASSUME NEW bd, NEW c, NEW n, Yields(bd, c, n), NEW k \in Indices
  PROVE  Open(WriteUnlessZero(c, k), n)
<1>1. Gpr(k) \in CachedReg /\ Open(c, n)
  BY Cached DEF Yields
<1>2. Open(write_reg(c, Gpr(k), Result(c)), n)
  BY <1>1, ResultWritten
<1> QED
  BY <1>1, <1>2 DEF WriteUnlessZero

LEMMA A64AddLowered ==
  ASSUME NEW bd, NEW n \in Nat, n + 2 <= VRegs, Open(bd, n), NEW w,
         w.rd \in Indices, w.rn \in Indices, w.imm \in Word
  PROVE  Open(LowerAdd(bd, w), n + 2)
<1> DEFINE r == IF w.rn = ZeroReg THEN bd ELSE read_reg(bd, Gpr(w.rn))
           x == IF w.rn = ZeroReg THEN 0 ELSE r.at[Gpr(w.rn)]
           e == emit_binary(r, "add", TopBit(w), x, w.imm)
<1>1. n \in 0..(VRegs - 1) /\ n + 1 \in 0..(VRegs - 1) /\ (n + 1) + 1 = n + 2 /\ n + 1 \in Nat
  BY RegsLimited
<1>2. Gpr(w.rn) \in CachedReg
  BY Cached
<1>3. LowerAdd(bd, w) = WriteUnlessZero(e, w.rd)
  BY DEF LowerAdd
<1>4. Open(r, n + 1) /\ Operand(r.ops, x)
  <2>1. CASE w.rn = ZeroReg
    <3>1. Open(bd, n + 1) /\ Operand(bd.ops, 0)
      BY <1>1, OpenLonger, SmallWords, WordIsOperand
    <3> QED
      BY <2>1, <3>1
  <2>2. CASE w.rn # ZeroReg
    <3> DEFINE q == read_reg(bd, Gpr(w.rn))
    <3>1. Reads(bd, q, Gpr(w.rn), n + 1)
      BY <1>1, <1>2, RegRead
    <3>2. r = q /\ x = q.at[Gpr(w.rn)]
      BY <2>2
    <3> HIDE DEF q, r, x
    <3>3. Open(q, n + 1) /\ Operand(q.ops, q.at[Gpr(w.rn)])
      BY <1>2, <3>1, ReadsOperand
    <3> QED
      BY <3>2, <3>3
  <2> QED
    BY <2>1, <2>2
<1> HIDE DEF r, x
<1>5. Yields(r, e, (n + 1) + 1)
  <2>1. "add" \in aluNames /\ Operand(r.ops, w.imm)
    BY WordIsOperand DEF aluNames
  <2> QED
    BY <1>1, <1>4, <2>1, Binary
<1> HIDE DEF e
<1> QED
  BY <1>1, <1>3, <1>5, WrittenUnlessZero

LEMMA A64Lowered ==
  ASSUME NEW bd, NEW n \in Nat, n + InsnRegs <= VRegs, Open(bd, n),
         NEW w \in Words["a64"], NEW p \in Word
  PROVE  LET c == A64Lower(bd, w, p)
         IN  /\ A64Mnemonic(w) \notin branchNames \cup {"br"} => Open(c, n + InsnRegs)
             /\ A64Mnemonic(w) \in {"b", "br"} => Ended(c, n + InsnRegs)
             /\ A64Mnemonic(w) \notin {"bclr", "bc"}
<1> DEFINE name == A64Mnemonic(w)
           c    == A64Lower(bd, w, p)
<1>0. /\ n + 2 <= VRegs /\ n \in 0..(VRegs - 1)
      /\ n + 1 \in Nat /\ n + 2 \in Nat /\ n + 9 \in Nat
      /\ n <= n + 9 /\ n + 1 <= n + 9 /\ n + 2 <= n + 9
      /\ InsnRegs = 9
      /\ VRegs \in Nat
  BY RegsLimited DEF InsnRegs
<1>1. /\ w.imm \in Word
      /\ Trunc(w.imm * 2 ^ (w.hw * HalfBits), WideBits) \in Word
      /\ A64Target(w, p) \in Word
      /\ next_pc(p) \in Word
  BY A64Literals
<1>2. w.rd \in Indices /\ w.rn \in Indices /\ LinkReg \in Indices
  BY FieldAssumption DEF A64Fields
<1>3. name \in {"add", "movz", "b", "br", "nop", "unknown"}
  BY DEF A64Mnemonic
<1>4. CASE name = "add"
  <2>1. c = LowerAdd(bd, w)
    BY <1>4 DEF A64Lower
  <2>2. Open(c, n + 2)
    BY <1>0, <1>1, <1>2, <2>1, A64AddLowered
  <2>3. Open(c, n + 9)
    BY <1>0, <2>2, OpenLonger
  <2> QED
    BY <1>0, <1>4, <2>3 DEF branchNames
<1>5. CASE name = "movz"
  <2> DEFINE x == Trunc(w.imm * 2 ^ (w.hw * HalfBits), WideBits)
             e == emit_binary(bd, "or", TopBit(w), 0, x)
  <2>1. c = WriteUnlessZero(e, w.rd)
    BY <1>5 DEF A64Lower, LowerMovz
  <2>2. Operand(bd.ops, 0) /\ Operand(bd.ops, x)
    BY <1>1, SmallWords, WordIsOperand
  <2> HIDE DEF x
  <2>3. Yields(bd, e, n + 1)
    <3>1. "or" \in aluNames
      BY DEF aluNames
    <3> QED
      BY <1>0, <2>2, <3>1, Binary
  <2> HIDE DEF e
  <2>4. Open(c, n + 1)
    BY <1>2, <2>1, <2>3, WrittenUnlessZero
  <2>5. Open(c, n + 9)
    BY <1>0, <2>4, OpenLonger
  <2> QED
    BY <1>0, <1>5, <2>5 DEF branchNames
<1>6. CASE name = "b"
  <2> DEFINE e == emit_binary(bd, "add", TRUE, next_pc(p), 0)
             l == write_reg(e, Gpr(LinkReg), Result(e))
             d == IF TopBit(w) THEN l ELSE bd
             t == A64Target(w, p)
  <2>1. c = emit_exit_uncond(d, t)
    BY <1>6 DEF A64Lower, LowerB
  <2>2. Operand(bd.ops, next_pc(p)) /\ Operand(bd.ops, 0)
    BY <1>1, SmallWords, WordIsOperand
  <2>3. Yields(bd, e, n + 1)
    <3>1. "add" \in aluNames
      BY DEF aluNames
    <3> QED
      BY <1>0, <2>2, <3>1, Binary
  <2> HIDE DEF e
  <2>4. Open(l, n + 1)
    BY <1>2, <2>3, ResultWritten, Cached
  <2> HIDE DEF l
  <2>5. Open(d, n + 1)
    BY <1>0, <2>4, OpenLonger
  <2> HIDE DEF d
  <2>6. Operand(d.ops, t) /\ t \in Imm
    BY <1>1, WordIsOperand, LiteralAssumption
  <2> HIDE DEF t
  <2>7. Ended(c, n + 1)
    BY <1>0, <2>1, <2>5, <2>6, ExitsEnd
  <2>8. Ended(c, n + 9)
    BY <1>0, <2>7, EndedLonger
  <2> QED
    BY <1>0, <1>6, <2>8 DEF branchNames
<1>7. CASE name = "br"
  <2> DEFINE r == read_reg(bd, Gpr(w.rn))
  <2>1. c = emit_exit_indirect(r, r.at[Gpr(w.rn)])
    BY <1>7 DEF A64Lower, LowerBr
  <2>2. Gpr(w.rn) \in CachedReg
    BY <1>2, Cached
  <2>3. Reads(bd, r, Gpr(w.rn), n + 1)
    BY <1>0, <2>2, RegRead
  <2> HIDE DEF r
  <2>4. Open(r, n + 1) /\ Operand(r.ops, r.at[Gpr(w.rn)])
    BY <2>2, <2>3, ReadsOperand
  <2>5. Ended(c, n + 1)
    BY <1>0, <2>1, <2>4, ExitsEnd
  <2>6. Ended(c, n + 9)
    BY <1>0, <2>5, EndedLonger
  <2> QED
    BY <1>0, <1>7, <2>6 DEF branchNames
<1>8. CASE name = "nop" \/ name = "unknown"
  <2>1. c = bd \/ c = emit_unimplemented(bd)
    BY <1>8 DEF A64Lower
  <2>2. Open(c, n)
    BY <2>1, UnimplementedLowered
  <2>3. Open(c, n + 9)
    BY <1>0, <2>2, OpenLonger
  <2> QED
    BY <1>0, <1>8, <2>3 DEF branchNames
<1> HIDE DEF name, c
<1> QED
  BY <1>3, <1>4, <1>5, <1>6, <1>7, <1>8 DEF name, c

-----------------------------------------------------------------------------
(* The loop of translate_block_at.                                         *)

(* The builder is open until the last word, and then ended or open; each   *)
(* word took at most InsnRegs registers.                                   *)
BuilderInv ==
  LET n == InsnRegs * (MaxInsns - left)
  IN  /\ frontend \in frontends
      /\ phase \in {"insn", "end", "done"}
      /\ left \in 0..MaxInsns
      /\ phase = "insn" => left > 0
      /\ cursor \in Word
      /\ phase = "insn" => Open(b, n)
      /\ phase = "end" => Open(b, n) \/ Ended(b, n)
      /\ phase = "done" => Ended(b, n)

LEMMA BuilderInit ==
  ASSUME Init
  PROVE  BuilderInv
<1>1. MaxInsns \in Nat \ {0} /\ Starts[frontend] \subseteq Machine
  BY TranslationAssumption DEF Init
<1>2. cursor \in Word
  <2>1. m \in Machine /\ pc \in GuestReg
    BY <1>1 DEF Init, GuestReg
  <2>2. m.reg[pc] \in Word
    BY <2>1 DEF Machine
  <2> QED
    BY <2>2 DEF Init
<1>3. InsnRegs * (MaxInsns - left) = 0
  BY <1>1 DEF Init, InsnRegs
<1> QED
  BY <1>1, <1>2, <1>3, NewBlockIsOpen DEF Init, BuilderInv

LEMMA BuilderStep ==
  ASSUME BuilderInv, [Next]_vars
  PROVE  BuilderInv'
<1> DEFINE n == InsnRegs * (MaxInsns - left)
<1>0. /\ MaxInsns \in Nat \ {0}
      /\ left \in 0..MaxInsns
      /\ n \in Nat
      /\ InsnRegs = 9
  BY TranslationAssumption DEF BuilderInv, InsnRegs
<1>1. CASE TranslateInsn
  <2>1. PICK w \in Words[frontend] :
          /\ b' = lower_to_ir(w)
          /\ phase' = IF is_block_terminator(w) \/ left = 1 THEN "end" ELSE "insn"
    BY <1>1 DEF TranslateInsn
  <2>2. /\ phase = "insn" /\ left > 0 /\ left' = left - 1
        /\ cursor \in Word /\ cursor' = next_pc(cursor)
        /\ frontend \in frontends /\ frontend' = frontend
        /\ Open(b, n)
    BY <1>1 DEF TranslateInsn, BuilderInv
  <2>3. /\ n + InsnRegs <= VRegs
        /\ InsnRegs * (MaxInsns - left') = n + InsnRegs
        /\ left' \in 0..MaxInsns
        /\ left # 1 => left' > 0
    BY <1>0, <2>2 DEF VRegs
  <2> HIDE DEF n
  <2>4. cursor' \in Word
    <3>1. cursor + InsnLen \in Int
      BY <2>2, WidthAssumption DEF Word
    <3> QED
      BY <2>2, <3>1, TruncIsWord DEF next_pc
  <2>5. /\ ~is_block_terminator(w) => Open(b', n + InsnRegs)
        /\ Open(b', n + InsnRegs) \/ Ended(b', n + InsnRegs)
    <3>1. CASE frontend = "ppc"
      <4>1. b' = PpcLower(b, w, cursor) /\ w \in Words["ppc"]
        BY <2>1, <3>1 DEF lower_to_ir
      <4>2. /\ Mnemonic(w) \notin branchNames => Open(b', n + InsnRegs)
            /\ Mnemonic(w) \in branchNames => Ended(b', n + InsnRegs)
        BY <1>0, <2>2, <2>3, <4>1, PpcLowered
      <4>3. ~is_block_terminator(w) => Mnemonic(w) \notin branchNames
        BY <3>1 DEF is_block_terminator, PpcTerminator, branchNames
      <4> QED
        BY <4>2, <4>3
    <3>2. CASE frontend # "ppc"
      <4>1. b' = A64Lower(b, w, cursor) /\ w \in Words["a64"]
        BY <2>1, <2>2, <3>2 DEF lower_to_ir, frontends
      <4>2. /\ A64Mnemonic(w) \notin branchNames \cup {"br"} => Open(b', n + InsnRegs)
            /\ A64Mnemonic(w) \in {"b", "br"} => Ended(b', n + InsnRegs)
            /\ A64Mnemonic(w) \notin {"bclr", "bc"}
        BY <1>0, <2>2, <2>3, <4>1, A64Lowered
      <4>3. ~is_block_terminator(w) => A64Mnemonic(w) \notin {"b", "br"}
        BY <3>2 DEF is_block_terminator, A64Terminator
      <4> QED
        BY <4>2, <4>3 DEF branchNames
    <3> QED
      BY <3>1, <3>2
  <2> QED
    BY <2>1, <2>2, <2>3, <2>4, <2>5 DEF BuilderInv
<1>2. CASE EndBlock
  <2>1. /\ phase = "end" /\ phase' = "done"
        /\ b' = IF b.ops # <<>> /\ is_control_flow(Last(b.ops)) THEN b ELSE ExitTo(b, cursor)
        /\ UNCHANGED <<frontend, cursor, left>>
        /\ Open(b, n) \/ Ended(b, n)
        /\ cursor \in Word
    BY <1>2 DEF EndBlock, BuilderInv
  <2> HIDE DEF n
  <2>2. ASSUME Ended(b, n)
        PROVE  Ended(b', n)
    BY <2>1, <2>2 DEF Ended
  <2>3. ASSUME Open(b, n)
        PROVE  Ended(b', n)
    <3>1. ~(b.ops # <<>> /\ is_control_flow(Last(b.ops)))
      <4> SUFFICES ASSUME b.ops # <<>>
                   PROVE  ~is_control_flow(Last(b.ops))
        OBVIOUS
      <4>1. Len(b.ops) \in 1..Len(b.ops)
        BY <2>3, EmptySeq DEF Open, Built, IsSeq
      <4> QED
        BY <2>3, <4>1 DEF Open, Last
    <3>2. Operand(b.ops, cursor)
      BY <2>1, WordIsOperand
    <3> QED
      BY <1>0, <2>1, <2>3, <3>1, <3>2, ExitsEnd
  <2>4. Ended(b', n)
    BY <2>1, <2>2, <2>3
  <2>5. n' = n
    BY <2>1 DEF n
  <2> QED
    BY <1>0, <2>1, <2>4, <2>5 DEF BuilderInv, n
<1>3. CASE Done \/ UNCHANGED vars
  BY <1>3 DEF Done, vars, BuilderInv
<1> QED
  BY <1>1, <1>2, <1>3 DEF Next

LEMMA BuilderHolds == Spec => []BuilderInv
<1>1. Init => BuilderInv
  BY BuilderInit
<1>2. BuilderInv /\ [Next]_vars => BuilderInv'
  BY BuilderStep
<1> QED
  BY <1>1, <1>2, PTL DEF Spec

(* Whatever words the memory holds, the block that translate_block_at      *)
(* makes of them has one definition for each virtual register, before its  *)
(* uses, and results only on the ops that the passes may remove.           *)
THEOREM LoweringIsWellFormed == Spec => []LoweredWellFormed
<1>1. BuilderInv => LoweredWellFormed
  BY DEF BuilderInv, Open, Ended, Built, LoweredWellFormed
<1> QED
  BY <1>1, BuilderHolds, PTL

(* It leaves the block with its last op and no other, and by then every    *)
(* guest register that is in a virtual one has been written back.          *)
THEOREM BlockEndsWithItsExit == Spec => []ExitIsLast
<1>1. ASSUME BuilderInv
      PROVE  ExitIsLast
  <2>1. IsSeq(b.ops)
    BY <1>1 DEF BuilderInv, Open, Ended, Built
  <2>2. Len(b.ops) \in Nat
    BY <2>1 DEF IsSeq
  <2>3. \A j \in 1..(Len(b.ops) - 1) : ~is_control_flow(b.ops[j])
    BY <1>1, <2>2 DEF BuilderInv, Open, Ended
  <2>4. phase = "done" => is_control_flow(Last(b.ops)) /\ Flushes(b)
    BY <1>1 DEF BuilderInv, Ended
  <2> QED
    BY <2>3, <2>4 DEF ExitIsLast, Flushes
<1> QED
  BY <1>1, BuilderHolds, PTL
=============================================================================
