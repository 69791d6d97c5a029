----------------------------- MODULE PassesProofs -----------------------------
(***************************************************************************)
(* Theorems about the optimisation passes, for every block an IrBuilder    *)
(* can make and every arithmetic: at full width the optimised block has    *)
(* the effects of the block, and exactly the dead ops are removed.         *)
(***************************************************************************)
EXTENDS Passes, SequenceFacts

(* What is known of each op of a block.                                    *)
LEMMA OpFacts ==
  ASSUME NEW b \in Seq(Op), NEW n \in 1..Len(b)
  PROVE  /\ b[n] \in Op
         /\ b[n].dst \in VReg \cup {NoReg}
         /\ b[n].args \in Seq(VReg \cup Imm)
         /\ Len(b[n].args) \in Nat
         /\ \A j \in 1..Len(b[n].args) : b[n].args[j] \in VReg \cup Imm
         /\ DOMAIN b[n].args = 1..Len(b[n].args)
         /\ b[n].kind \in Kind
<1>1. b[n] \in Op
  BY ElementOfSeq
<1>2. b[n].dst \in VReg \cup {NoReg} /\ b[n].args \in Seq(VReg \cup Imm) /\ b[n].kind \in Kind
  BY <1>1 DEF Op
<1> QED
  BY <1>1, <1>2, ElementOfSeq, LenProperties

LEMMA KindFacts ==
  ASSUME NEW t \in Kind
  PROVE  /\ t.name \in aluNames \cup readNames \cup effectNames
         /\ t.wide \in BOOLEAN
BY PassAssumption

(* The three groups of ops are disjoint.                                   *)
LEMMA NamesFacts ==
  /\ aluNames \cap readNames = {}
  /\ aluNames \cap effectNames = {}
  /\ readNames \cap effectNames = {}
  /\ "or" \in aluNames
BY DEF aluNames, readNames, effectNames

(* Operands() by the definition's quantifier over positions.               *)
LEMMA OperandFacts ==
  ASSUME NEW b \in Seq(Op), NEW n \in 1..Len(b)
  PROVE  /\ Operands(b[n]) \subseteq VReg
         /\ \A v : v \in Operands(b[n]) <=>
              v \in VReg /\ \E j \in 1..Len(b[n].args) : b[n].args[j] = v
<1>1. DOMAIN b[n].args = 1..Len(b[n].args)
  BY OpFacts
<1> QED
  BY <1>1 DEF Operands

(* A vreg is defined at one place of a well-formed block, before its uses. *)
LEMMA DefinedOnce ==
  ASSUME NEW b \in Seq(Op), WellFormed(b),
         NEW m \in 1..Len(b), NEW n \in 1..Len(b),
         b[m].dst = b[n].dst, b[n].dst # NoReg
  PROVE  m = n
<1>0. Len(b) \in Nat
  BY LenProperties
<1>1. CASE m < n
  <2>1. m \in 1..(n - 1)
    BY <1>0, <1>1
  <2> QED
    BY <2>1 DEF WellFormed
<1>2. CASE n < m
  <2>1. n \in 1..(m - 1)
    BY <1>0, <1>2
  <2> QED
    BY <2>1 DEF WellFormed
<1> QED
  BY <1>0, <1>1, <1>2

LEMMA DefinedBefore ==
  ASSUME NEW b \in Seq(Op), WellFormed(b), NEW n \in 1..Len(b), NEW v \in Operands(b[n])
  PROVE  \E m \in 1..Len(b) : m < n /\ b[m].dst = v
<1>0. Len(b) \in Nat
  BY LenProperties
<1>1. PICK m \in 1..(n - 1) : b[m].dst = v
  BY DEF WellFormed
<1>2. m \in 1..Len(b) /\ m < n
  BY <1>0
<1> QED
  BY <1>1, <1>2

(* Replacing one op of a sequence.                                         *)
LEMMA ReplaceFacts ==
  ASSUME NEW b \in Seq(Op), NEW n \in 1..Len(b), NEW o \in Op
  PROVE  /\ [b EXCEPT ![n] = o] \in Seq(Op)
         /\ Len([b EXCEPT ![n] = o]) = Len(b)
         /\ \A m \in 1..Len(b) : [b EXCEPT ![n] = o][m] = IF m = n THEN o ELSE b[m]
BY ExceptSeq, ElementOfSeq

(* What subst_op makes of an op.                                           *)
LEMMA SubstFacts ==
  ASSUME NEW b \in Seq(Op), NEW n \in 1..Len(b),
         DOMAIN known \subseteq VReg, \A v \in DOMAIN known : known[v] \in Imm
  PROVE  LET o == subst_op(b[n])
         IN  /\ o \in Op
             /\ o.kind = b[n].kind
             /\ o.dst = b[n].dst
             /\ Len(o.args) = Len(b[n].args)
             /\ \A j \in 1..Len(b[n].args) :
                  o.args[j] = IF b[n].args[j] \in DOMAIN known
                              THEN known[b[n].args[j]] ELSE b[n].args[j]
<1> DEFINE f == [j \in DOMAIN b[n].args |->
                   IF b[n].args[j] \in DOMAIN known THEN known[b[n].args[j]] ELSE b[n].args[j]]
<1>1. DOMAIN b[n].args = 1..Len(b[n].args) /\ Len(b[n].args) \in Nat
  BY OpFacts
<1>2. \A j \in 1..Len(b[n].args) : f[j] \in VReg \cup Imm
  BY <1>1, OpFacts
<1>3. f \in [1..Len(b[n].args) -> VReg \cup Imm]
  BY <1>1, <1>2
<1>4. f \in Seq(VReg \cup Imm) /\ Len(f) = Len(b[n].args)
  BY <1>1, <1>3
<1>5. subst_op(b[n]) = [b[n] EXCEPT !.args = f]
  BY DEF subst_op
<1>6. b[n] \in Op
  BY OpFacts
<1>7. \A j \in 1..Len(b[n].args) :
        f[j] = IF b[n].args[j] \in DOMAIN known THEN known[b[n].args[j]] ELSE b[n].args[j]
  BY <1>1
<1> HIDE DEF f
<1>8. /\ subst_op(b[n]) \in Op
      /\ subst_op(b[n]).kind = b[n].kind
      /\ subst_op(b[n]).dst = b[n].dst
      /\ subst_op(b[n]).args = f
  BY <1>4, <1>5, <1>6 DEF Op
<1> QED
  BY <1>4, <1>7, <1>8

(* The shape of what the passes start from.                                *)
LEMMA InitInv == Init => PassInv
<1> SUFFICES ASSUME Init PROVE PassInv
  OBVIOUS
<1>1. src \in Seq(Op) /\ WellFormed(src) /\ Len(src) \in Nat
  <2>1. src \in Blocks
    BY DEF Init
  <2> QED
    BY <2>1, PassAssumption, LenProperties
<1>2. PassTypeOK
  <2>1. i \in 0..(Len(src) + 1)
    BY <1>1 DEF Init
  <2>2. env \in [VReg -> Imm] /\ fenv \in [VReg -> Imm]
    BY PassAssumption DEF Init
  <2> QED
    BY <1>1, <2>1, <2>2 DEF Init, PassTypeOK
<1>3. FoldInv
  BY <1>1 DEF Init, FoldInv, Passed
<1>4. MarkInv
  BY DEF Init, MarkInv, Swept
<1>5. RunInv
  BY DEF Init, RunInv
<1>6. i >= 1 /\ pc # "mark"
  BY DEF Init
<1> QED
  BY <1>1, <1>2, <1>3, <1>4, <1>5, <1>6 DEF PassInv

(* The parts of the types that the steps below use.                        *)
LEMMA TypeFacts ==
  ASSUME PassInv
  PROVE  /\ src \in Seq(Op) /\ ops \in Seq(Op)
         /\ Len(src) \in Nat /\ Len(ops) = Len(src)
         /\ i \in 0..(Len(src) + 1)
         /\ pc \in {"fold", "run"} => i >= 1
         /\ DOMAIN known \subseteq VReg /\ NoReg \notin DOMAIN known
         /\ \A v \in DOMAIN known : known[v] \in Imm
         /\ used \subseteq VReg /\ NoReg \notin used
         /\ env \in [VReg -> Imm] /\ fenv \in [VReg -> Imm]
BY LenProperties, NoRegAssumption DEF PassInv, PassTypeOK

(* What the invariant says of the op that const_fold comes to.             *)
LEMMA FoldFacts ==
  ASSUME PassInv, pc = "fold", i <= Len(ops)
  PROVE  /\ i \in 1..Len(src)
         /\ ops[i] = src[i]
         /\ src[i].dst \notin DOMAIN known
         /\ \A n \in 1..(i - 1) :
              src[n].dst # src[i].dst \/ src[i].dst = NoReg
<1>1. i \in 1..Len(src) /\ Len(src) \in Nat /\ src \in Seq(Op) /\ WellFormed(src)
  BY TypeFacts DEF PassInv
<1>2. ops[i] = src[i]
  BY <1>1 DEF PassInv, FoldInv, Passed
<1>3. ASSUME NEW n \in 1..(i - 1)
      PROVE  src[n].dst # src[i].dst \/ src[i].dst = NoReg
  BY <1>1, DefinedOnce
<1>4. src[i].dst \notin DOMAIN known
  <2> SUFFICES ASSUME src[i].dst \in DOMAIN known PROVE FALSE
    OBVIOUS
  <2>1. PICK n \in 1..Len(src) : n < i /\ src[n].dst = src[i].dst
    BY DEF PassInv, FoldInv, Passed
  <2>2. n \in 1..(i - 1) /\ src[i].dst # NoReg
    BY <1>1, <2>1, TypeFacts
  <2> QED
    BY <1>3, <2>1, <2>2
<1> QED
  BY <1>1, <1>2, <1>3, <1>4

(* Ops passed before stay what they are when more becomes known.           *)
LEMMA KeepsFolded ==
  ASSUME NEW n \in 1..Len(src), IsFolded(n), src[n].dst \in DOMAIN known,
         src' = src, ops'[n] = ops[n],
         DOMAIN known \subseteq DOMAIN known',
         \A v \in DOMAIN known : known'[v] = known[v]
  PROVE  IsFolded(n)'
<1>1. \A j \in 1..2 : IsKnown(src[n].args[j])' /\ KnownAs(src[n].args[j])' = KnownAs(src[n].args[j])
  BY DEF IsFolded, IsKnown, KnownAs
<1>2. KnownAs(src[n].args[1])' = KnownAs(src[n].args[1])
      /\ KnownAs(src[n].args[2])' = KnownAs(src[n].args[2])
  BY <1>1
<1>3. known'[src[n].dst] = known[src[n].dst]
  OBVIOUS
<1> QED
  BY <1>1, <1>2, <1>3 DEF IsFolded, IsKnown, KnownAs, Constant

LEMMA KeepsSubstituted ==
  ASSUME NEW n \in 1..Len(src), IsSubstituted(n),
         src' = src, ops'[n] = ops[n],
         DOMAIN known \subseteq DOMAIN known',
         \A v \in DOMAIN known : known'[v] = known[v]
  PROVE  IsSubstituted(n)'
BY DEF IsSubstituted, IsKnown, KnownAs

(* What a step that changes neither block nor what is known keeps.         *)
LEMMA KeepsFoldInv ==
  ASSUME FoldInv, UNCHANGED <<src, ops, known>>,
         \A n \in 1..Len(src) : Passed(n)' <=> Passed(n)
  PROVE  FoldInv'
<1>1. ASSUME NEW n \in 1..Len(src), IsFolded(n), src[n].dst \in DOMAIN known PROVE IsFolded(n)'
  BY <1>1, KeepsFolded
<1>2. ASSUME NEW n \in 1..Len(src), IsSubstituted(n) PROVE IsSubstituted(n)'
  BY <1>2, KeepsSubstituted
<1> QED
  BY <1>1, <1>2 DEF FoldInv

(* Folding one op.                                                         *)
LEMMA FoldOpInv == PassInv /\ FoldOp => PassInv'
<1> SUFFICES ASSUME PassInv, FoldOp PROVE PassInv'
  OBVIOUS
<1>1. /\ pc = "fold" /\ pc' = "fold" /\ i <= Len(ops) /\ i' = i + 1
      /\ UNCHANGED <<src, used, kept, env, fenv, out, fout>>
  BY DEF FoldOp, runVars
<1>2. PICK c \in 1..Len(src) :
        /\ c = i
        /\ c \in 1..Len(ops)
        /\ ops[c] = src[c]
        /\ src[c].dst \notin DOMAIN known
        /\ \A n \in 1..(c - 1) : src[n].dst # src[c].dst \/ src[c].dst = NoReg
  BY <1>1, FoldFacts, TypeFacts
<1>3. PICK op \in Op :
        /\ op = subst_op(ops[c])
        /\ op.kind = src[c].kind
        /\ op.dst = src[c].dst
        /\ Len(op.args) = Len(src[c].args)
        /\ \A j \in 1..Len(src[c].args) :
             op.args[j] = IF src[c].args[j] \in DOMAIN known
                          THEN known[src[c].args[j]] ELSE src[c].args[j]
  BY <1>2, SubstFacts, TypeFacts
<1>4. IF Foldable(op)
      THEN LET x == Fold(op.kind.name, op.args[1], op.args[2])
           IN  /\ known' = [v \in DOMAIN known \cup {op.dst} |->
                              IF v = op.dst THEN x ELSE known[v]]
               /\ ops' = [ops EXCEPT ![c] = Constant(op.dst, x)]
      ELSE ops' = [ops EXCEPT ![c] = op] /\ known' = known
  BY <1>2, <1>3 DEF FoldOp
<1>5. Len(src[c].args) \in Nat /\ \A j \in 1..Len(src[c].args) : src[c].args[j] \in VReg \cup Imm
  BY <1>2, OpFacts, TypeFacts
<1>6. \A j \in 1..Len(src[c].args) :
        op.args[j] \in Imm => IsKnown(src[c].args[j]) /\ op.args[j] = KnownAs(src[c].args[j])
  <2> TAKE j \in 1..Len(src[c].args)
  <2>1. CASE src[c].args[j] \in DOMAIN known
    <3>1. src[c].args[j] \notin Imm
      BY <2>1, TypeFacts, ImmAssumption
    <3> QED
      BY <1>3, <2>1, <3>1 DEF IsKnown, KnownAs
  <2>2. CASE src[c].args[j] \notin DOMAIN known
    BY <1>3, <2>2 DEF IsKnown, KnownAs
  <2> QED
    BY <2>1, <2>2
<1>7. ASSUME Foldable(op)
      PROVE  /\ ops' \in Seq(Op) /\ Len(ops') = Len(ops) /\ FoldInv'
             /\ DOMAIN known' \subseteq VReg /\ \A v \in DOMAIN known' : known'[v] \in Imm
  <2>1. /\ src[c].kind.name \in aluNames /\ Len(src[c].args) = 2
        /\ src[c].dst \in VReg /\ src[c].dst # NoReg
        /\ op.args[1] \in Imm /\ op.args[2] \in Imm
    <3>1. src[c].kind.name \in aluNames
      BY <1>3, <1>7 DEF Foldable
    <3>2. Len(src[c].args) = 2 /\ src[c].dst # NoReg
      BY <1>2, <3>1, NamesFacts DEF PassInv, WellFormed
    <3>3. src[c].dst \in VReg
      BY <1>2, <3>2, OpFacts, TypeFacts
    <3>4. op.args[1] \in Imm /\ op.args[2] \in Imm
      BY <1>3, <1>7, <3>2 DEF Foldable
    <3> QED
      BY <3>1, <3>2, <3>3, <3>4
  <2>2. PICK x \in Imm :
          /\ x = Fold(op.kind.name, op.args[1], op.args[2])
          /\ x = Fold(src[c].kind.name, KnownAs(src[c].args[1]), KnownAs(src[c].args[2]))
    <3>1. op.args[1] = KnownAs(src[c].args[1]) /\ op.args[2] = KnownAs(src[c].args[2])
      BY <1>6, <2>1
    <3>2. Fold(src[c].kind.name, op.args[1], op.args[2]) \in Imm
      BY <2>1, ArithmeticAssumption
    <3> QED
      BY <1>3, <3>1, <3>2
  <2>3. /\ DOMAIN known' = DOMAIN known \cup {src[c].dst}
        /\ known'[src[c].dst] = x
        /\ \A v \in DOMAIN known : known'[v] = known[v]
    BY <1>2, <1>3, <1>4, <1>7, <2>2
  <2>4. Constant(op.dst, x) \in Op /\ Constant(op.dst, x) = Constant(src[c].dst, x)
    <3>1. [name |-> "or", wide |-> TRUE] \in Kind
      BY PassAssumption, NamesFacts
    <3>2. <<x, Zero>> \in Seq(VReg \cup Imm)
      <4>1. x \in VReg \cup Imm /\ Zero \in VReg \cup Imm
        BY PassAssumption
      <4> QED
        BY <4>1
    <3> QED
      BY <1>3, <2>1, <3>1, <3>2 DEF Constant, Op
  <2>5. /\ ops' \in Seq(Op) /\ Len(ops') = Len(ops)
        /\ \A m \in 1..Len(ops) : ops'[m] = IF m = c THEN Constant(src[c].dst, x) ELSE ops[m]
    <3>1. ops' = [ops EXCEPT ![c] = Constant(op.dst, x)]
      BY <1>4, <1>7, <2>2
    <3> QED
      BY <1>2, <2>4, <3>1, ReplaceFacts, TypeFacts
  <2>6. IsFolded(c)'
    <3>1. \A j \in 1..2 : IsKnown(src[c].args[j])' /\ KnownAs(src[c].args[j])' = KnownAs(src[c].args[j])
      BY <1>1, <1>6, <2>1, <2>3 DEF IsKnown, KnownAs
    <3>2. ops'[c] = Constant(src[c].dst, x)
      BY <1>2, <2>5
    <3>3. KnownAs(src[c].args[1])' = KnownAs(src[c].args[1])
          /\ KnownAs(src[c].args[2])' = KnownAs(src[c].args[2])
      BY <3>1
    <3> QED
      BY <1>1, <2>1, <2>2, <2>3, <3>1, <3>2, <3>3 DEF IsFolded, Constant
  <2>7. FoldInv'
    <3>1. ASSUME NEW v \in DOMAIN known'
          PROVE  \E n \in 1..Len(src') : Passed(n)' /\ src'[n].dst = v
      <4>1. CASE v = src[c].dst
        BY <1>1, <1>2, <4>1 DEF Passed
      <4>2. CASE v \in DOMAIN known
        <5>1. PICK n \in 1..Len(src) : n < c /\ src[n].dst = v
          BY <1>1, <1>2, <4>2 DEF PassInv, FoldInv, Passed
        <5>2. n < i'
          BY <1>1, <1>2, <5>1
        <5> QED
          BY <1>1, <5>1, <5>2 DEF Passed
      <4> QED
        BY <2>3, <3>1, <4>1, <4>2
    <3>2. ASSUME NEW n \in 1..Len(src)
          PROVE  IF Passed(n)'
                 THEN IF src[n].dst \in DOMAIN known' THEN IsFolded(n)' ELSE IsSubstituted(n)'
                 ELSE ops'[n] = src[n]
      <4>1. CASE n = c
        <5>1. Passed(n)'
          BY <1>1, <1>2, <4>1 DEF Passed
        <5> QED
          BY <2>3, <2>6, <4>1, <5>1
      <4>2. CASE n < c
        <5>1. Passed(n) /\ Passed(n)'
          BY <1>1, <1>2, <4>2 DEF Passed
        <5>2. IF src[n].dst \in DOMAIN known THEN IsFolded(n) ELSE IsSubstituted(n)
          BY <5>1 DEF PassInv, FoldInv
        <5>3. ops'[n] = ops[n]
          BY <2>5, <4>2, TypeFacts
        <5>4. n \in 1..(c - 1)
          BY <1>2, <4>2, TypeFacts
        <5>5. src[n].dst \in DOMAIN known' <=> src[n].dst \in DOMAIN known
          BY <1>2, <2>1, <2>3, <5>4
        <5> QED
          BY <1>1, <2>3, <5>1, <5>2, <5>3, <5>5, KeepsFolded, KeepsSubstituted
      <4>3. CASE n > c
        <5>1. ~Passed(n) /\ ~Passed(n)'
          BY <1>1, <1>2, <4>3 DEF Passed
        <5>2. ops[n] = src[n]
          BY <5>1 DEF PassInv, FoldInv
        <5>3. ops'[n] = ops[n]
          BY <2>5, <4>3, TypeFacts
        <5> QED
          BY <5>1, <5>2, <5>3
      <4> QED
        BY <1>2, <4>1, <4>2, <4>3
    <3> QED
      BY <1>1, <3>1, <3>2 DEF FoldInv
  <2>8. DOMAIN known' \subseteq VReg /\ \A v \in DOMAIN known' : known'[v] \in Imm
    BY <2>1, <2>2, <2>3, TypeFacts
  <2> QED
    BY <2>5, <2>7, <2>8
<1>8. ASSUME ~Foldable(op)
      PROVE  /\ ops' \in Seq(Op) /\ Len(ops') = Len(ops) /\ FoldInv'
             /\ DOMAIN known' \subseteq VReg /\ \A v \in DOMAIN known' : known'[v] \in Imm
  <2>1. /\ ops' \in Seq(Op) /\ Len(ops') = Len(ops)
        /\ \A m \in 1..Len(ops) : ops'[m] = IF m = c THEN op ELSE ops[m]
        /\ known' = known
    <3>1. ops' = [ops EXCEPT ![c] = op] /\ known' = known
      BY <1>2, <1>4, <1>8
    <3> QED
      BY <1>2, <3>1, ReplaceFacts, TypeFacts
  <2>2. IsSubstituted(c)'
    <3>1. ops'[c] = op
      BY <1>2, <2>1
    <3>2. \A j \in 1..Len(src[c].args) :
            \/ op.args[j] = src[c].args[j]
            \/ IsKnown(src[c].args[j])' /\ op.args[j] = KnownAs(src[c].args[j])'
      <4> TAKE j \in 1..Len(src[c].args)
      <4>1. CASE src[c].args[j] \in DOMAIN known
        <5>1. src[c].args[j] \notin Imm
          BY <4>1, TypeFacts, ImmAssumption
        <5> QED
          BY <1>1, <1>3, <2>1, <4>1, <5>1 DEF IsKnown, KnownAs
      <4> QED
        BY <1>3, <4>1
    <3> QED
      BY <1>1, <1>3, <3>1, <3>2 DEF IsSubstituted
  <2>3. FoldInv'
    <3>1. ASSUME NEW v \in DOMAIN known'
          PROVE  \E n \in 1..Len(src') : Passed(n)' /\ src'[n].dst = v
      <4>1. PICK n \in 1..Len(src) : n < c /\ src[n].dst = v
        BY <1>1, <1>2, <2>1, <3>1 DEF PassInv, FoldInv, Passed
      <4>2. n < i'
        BY <1>1, <1>2, <4>1
      <4> QED
        BY <1>1, <4>1, <4>2 DEF Passed
    <3>2. ASSUME NEW n \in 1..Len(src)
          PROVE  IF Passed(n)'
                 THEN IF src[n].dst \in DOMAIN known' THEN IsFolded(n)' ELSE IsSubstituted(n)'
                 ELSE ops'[n] = src[n]
      <4>1. CASE n = c
        <5>1. Passed(n)'
          BY <1>1, <1>2, <4>1 DEF Passed
        <5> QED
          BY <1>2, <2>1, <2>2, <4>1, <5>1
      <4>2. CASE n < c
        <5>1. Passed(n) /\ Passed(n)'
          BY <1>1, <1>2, <4>2 DEF Passed
        <5>2. IF src[n].dst \in DOMAIN known THEN IsFolded(n) ELSE IsSubstituted(n)
          BY <5>1 DEF PassInv, FoldInv
        <5>3. ops'[n] = ops[n]
          BY <2>1, <4>2, TypeFacts
        <5> QED
          BY <1>1, <2>1, <5>1, <5>2, <5>3, KeepsFolded, KeepsSubstituted
      <4>3. CASE n > c
        <5>1. ~Passed(n) /\ ~Passed(n)'
          BY <1>1, <1>2, <4>3 DEF Passed
        <5>2. ops[n] = src[n]
          BY <5>1 DEF PassInv, FoldInv
        <5>3. n \in 1..Len(ops) /\ n # c
          BY <1>2, <4>3, TypeFacts
        <5>4. ops'[n] = ops[n]
          BY <2>1, <5>3
        <5> QED
          BY <5>1, <5>2, <5>4
      <4> QED
        BY <1>2, <4>1, <4>2, <4>3
    <3> QED
      BY <1>1, <3>1, <3>2 DEF FoldInv
  <2> QED
    BY <2>1, <2>3, TypeFacts
<1>9. /\ ops' \in Seq(Op) /\ Len(ops') = Len(ops) /\ FoldInv'
      /\ DOMAIN known' \subseteq VReg /\ \A v \in DOMAIN known' : known'[v] \in Imm
  BY <1>7, <1>8
<1>10. PassTypeOK'
  <2>1. i' \in 0..(Len(src) + 1)
    BY <1>1, <1>2, TypeFacts
  <2> QED
    BY <1>1, <1>9, <2>1 DEF PassInv, PassTypeOK
<1>11. MarkInv'
  <2>1. used = {}
    BY <1>1 DEF PassInv, MarkInv, Swept
  <2> QED
    BY <1>1, <2>1 DEF MarkInv, Swept
<1>12. RunInv'
  BY <1>1 DEF PassInv, RunInv, AllWide
<1>13. WellFormed(src') /\ i' >= 1
  BY <1>1, <1>2 DEF PassInv
<1> QED
  BY <1>1, <1>9, <1>10, <1>11, <1>12, <1>13 DEF PassInv

(* After the fold an op has its destination, has an effect if it had one,  *)
(* and reads no vreg it did not read before.                               *)
LEMMA OptimisedFacts ==
  ASSUME PassInv, pc # "fold", NEW n \in 1..Len(src)
  PROVE  /\ n \in 1..Len(ops)
         /\ ops[n].dst = src[n].dst
         /\ ops[n].kind.name \in effectNames <=> src[n].kind.name \in effectNames
         /\ Operands(ops[n]) \subseteq Operands(src[n])
<1>1. /\ src \in Seq(Op) /\ ops \in Seq(Op) /\ n \in 1..Len(ops)
      /\ \A v \in DOMAIN known : known[v] \in Imm
  BY TypeFacts
<1>2. IF src[n].dst \in DOMAIN known THEN IsFolded(n) ELSE IsSubstituted(n)
  BY DEF PassInv, FoldInv, Passed
<1>3. ASSUME NEW v \in Operands(ops[n])
      PROVE  v \in VReg /\ v \notin Imm /\ \E j \in 1..Len(ops[n].args) : ops[n].args[j] = v
  <2>1. v \in VReg /\ \E j \in 1..Len(ops[n].args) : ops[n].args[j] = v
    BY <1>1, OperandFacts
  <2> QED
    BY <2>1, ImmAssumption
<1>4. CASE IsFolded(n) /\ src[n].dst \in DOMAIN known
  <2>1. ops[n] = Constant(src[n].dst, known[src[n].dst]) /\ known[src[n].dst] \in Imm
    BY <1>1, <1>4 DEF IsFolded
  <2>2. /\ ops[n].dst = src[n].dst /\ ops[n].kind.name = "or"
        /\ ops[n].args = <<known[src[n].dst], Zero>>
    BY <2>1 DEF Constant
  <2>3. \A j \in 1..Len(ops[n].args) : ops[n].args[j] \in Imm
    <3>1. Zero \in Imm
      BY PassAssumption
    <3>2. Len(ops[n].args) = 2 /\ ops[n].args[1] \in Imm /\ ops[n].args[2] \in Imm
      BY <2>1, <2>2, <3>1
    <3> QED
      BY <3>2
  <2>4. Operands(ops[n]) = {}
    BY <1>3, <2>3
  <2>5. src[n].kind.name \in aluNames
    BY <1>4 DEF IsFolded
  <2> QED
    BY <1>1, <2>2, <2>4, <2>5, NamesFacts
<1>5. CASE IsSubstituted(n)
  <2>1. /\ ops[n].kind = src[n].kind /\ ops[n].dst = src[n].dst
        /\ Len(ops[n].args) = Len(src[n].args)
    BY <1>5 DEF IsSubstituted
  <2>2. ASSUME NEW v \in Operands(ops[n]) PROVE v \in Operands(src[n])
    <3>1. v \in VReg /\ v \notin Imm
      BY <1>3
    <3>2. PICK j \in 1..Len(ops[n].args) : ops[n].args[j] = v
      BY <1>3
    <3>3. src[n].args[j] = v
      <4> SUFFICES ASSUME src[n].args[j] # v PROVE FALSE
        OBVIOUS
      <4>1. IsKnown(src[n].args[j]) /\ v = KnownAs(src[n].args[j])
        BY <1>5, <2>1, <3>2 DEF IsSubstituted
      <4> QED
        BY <1>1, <3>1, <4>1 DEF IsKnown, KnownAs
    <3> QED
      BY <1>1, <2>1, <3>1, <3>2, <3>3, OperandFacts
  <2> QED
    BY <1>1, <2>1, <2>2
<1> QED
  BY <1>2, <1>4, <1>5

(* So the optimised block, too, defines a vreg once and before its uses.   *)
LEMMA OptimisedOrder ==
  ASSUME PassInv, pc # "fold", NEW n \in 1..Len(src)
  PROVE  /\ \A v \in Operands(ops[n]) : \E m \in 1..Len(src) : m < n /\ ops[m].dst = v
         /\ \A m \in 1..Len(src) : ops[m].dst = ops[n].dst /\ ops[n].dst # NoReg => m = n
         /\ ops[n].kind.name \in effectNames <=> ops[n].dst = NoReg
<1>1. src \in Seq(Op) /\ WellFormed(src)
  BY TypeFacts DEF PassInv
<1>2. \A m \in 1..Len(src) : ops[m].dst = src[m].dst
  BY OptimisedFacts
<1>3. ASSUME NEW v \in Operands(ops[n])
      PROVE  \E m \in 1..Len(src) : m < n /\ ops[m].dst = v
  <2>1. v \in Operands(src[n])
    BY OptimisedFacts
  <2> QED
    BY <1>1, <1>2, <2>1, DefinedBefore
<1>4. ASSUME NEW m \in 1..Len(src), ops[m].dst = ops[n].dst, ops[n].dst # NoReg
      PROVE  m = n
  BY <1>1, <1>2, <1>4, DefinedOnce
<1>5. src[n].dst = NoReg <=> src[n].kind.name \in effectNames
  BY <1>1 DEF WellFormed
<1>6. ops[n].kind.name \in effectNames <=> ops[n].dst = NoReg
  BY <1>5, OptimisedFacts
<1> QED
  BY <1>3, <1>4, <1>6

(* What keeps MarkInv besides the sweep itself.                            *)
LEMMA KeepsMarkInv ==
  ASSUME MarkInv, UNCHANGED <<src, ops, used>>,
         \A n \in 1..Len(src) : Swept(n)' <=> Swept(n),
         pc' = "run" => kept' = {n \in 1..Len(src) : IsNeeded(ops[n])}
  PROVE  MarkInv'
<1>1. \A n \in 1..Len(src) : IsNeeded(ops[n])' <=> IsNeeded(ops[n])
  BY DEF IsNeeded
<1>2. \A n \in 1..Len(src) : Operands(ops[n])' = Operands(ops[n])
  BY DEF Operands
<1> QED
  BY <1>1, <1>2 DEF MarkInv

(* The change from one pass to the other, and to the second sweep.         *)
LEMMA FoldedInv == PassInv /\ Folded => PassInv'
<1> SUFFICES ASSUME PassInv, Folded PROVE PassInv'
  OBVIOUS
<1>1. /\ pc = "fold" /\ i > Len(ops) /\ pc' = "mark" /\ i' = Len(ops)
      /\ UNCHANGED <<src, ops, known, used, kept, env, fenv, out, fout>>
  BY DEF Folded, passVars, runVars
<1>2. /\ Len(src) \in Nat /\ Len(ops) = Len(src) /\ i \in 0..(Len(src) + 1)
  BY TypeFacts
<1>3. PassTypeOK'
  BY <1>1, <1>2 DEF PassInv, PassTypeOK
<1>4. FoldInv'
  <2>1. \A n \in 1..Len(src) : Passed(n) /\ Passed(n)'
    BY <1>1, <1>2 DEF Passed
  <2> QED
    BY <1>1, <2>1, KeepsFoldInv DEF PassInv
<1>5. MarkInv'
  <2>1. \A n \in 1..Len(src) : ~Swept(n) /\ ~Swept(n)'
    BY <1>1, <1>2 DEF Swept
  <2> QED
    BY <1>1, <2>1, KeepsMarkInv DEF PassInv
<1>6. RunInv'
  BY <1>1 DEF PassInv, RunInv, AllWide
<1> QED
  BY <1>1, <1>2, <1>3, <1>4, <1>5, <1>6 DEF PassInv

LEMMA MarkedInv == PassInv /\ Marked => PassInv'
<1> SUFFICES ASSUME PassInv, Marked PROVE PassInv'
  OBVIOUS
<1>1. /\ pc = "mark" /\ i = 0 /\ pc' = "retain"
      /\ UNCHANGED <<src, ops, known, used, kept, i, env, fenv, out, fout>>
  BY DEF Marked, passVars, runVars
<1>2. PassTypeOK'
  BY <1>1 DEF PassInv, PassTypeOK
<1>3. FoldInv'
  <2>1. \A n \in 1..Len(src) : Passed(n) /\ Passed(n)'
    BY <1>1 DEF Passed
  <2> QED
    BY <1>1, <2>1, KeepsFoldInv DEF PassInv
<1>4. MarkInv'
  <2>1. \A n \in 1..Len(src) : Swept(n) /\ Swept(n)'
    BY <1>1 DEF Swept
  <2> QED
    BY <1>1, <2>1, KeepsMarkInv DEF PassInv
<1>5. RunInv'
  BY <1>1 DEF PassInv, RunInv, AllWide
<1> QED
  BY <1>1, <1>2, <1>3, <1>4, <1>5 DEF PassInv

LEMMA RetainInv == PassInv /\ Retain => PassInv'
<1> SUFFICES ASSUME PassInv, Retain PROVE PassInv'
  OBVIOUS
<1>1. /\ pc = "retain" /\ kept' = {n \in 1..Len(ops) : IsNeeded(ops[n])}
      /\ pc' = "run" /\ i' = 1
      /\ UNCHANGED <<src, ops, known, used, env, fenv, out, fout>>
  BY DEF Retain, runVars
<1>2. Len(src) \in Nat /\ Len(ops) = Len(src)
  BY TypeFacts
<1>3. PassTypeOK'
  BY <1>1, <1>2 DEF PassInv, PassTypeOK
<1>4. FoldInv'
  <2>1. \A n \in 1..Len(src) : Passed(n) /\ Passed(n)'
    BY <1>1 DEF Passed
  <2> QED
    BY <1>1, <2>1, KeepsFoldInv DEF PassInv
<1>5. MarkInv'
  <2>1. \A n \in 1..Len(src) : Swept(n) /\ Swept(n)'
    BY <1>1 DEF Swept
  <2> QED
    BY <1>1, <1>2, <2>1, KeepsMarkInv DEF PassInv
<1>6. RunInv'
  BY <1>1 DEF PassInv, RunInv, AllWide
<1> QED
  BY <1>1, <1>3, <1>4, <1>5, <1>6 DEF PassInv

(* One step of the sweep: op c is looked at after all that may read it.    *)
LEMMA MarkOpInv == PassInv /\ MarkOp => PassInv'
<1> SUFFICES ASSUME PassInv, MarkOp PROVE PassInv'
  OBVIOUS
<1>1. /\ pc = "mark" /\ pc' = "mark" /\ i >= 1 /\ i' = i - 1
      /\ used' = IF IsNeeded(ops[i]) THEN used \cup Touched(ops[i]) ELSE used
      /\ UNCHANGED <<src, ops, known, kept, env, fenv, out, fout>>
  BY DEF MarkOp, runVars
<1>2. /\ Len(src) \in Nat /\ Len(ops) = Len(src) /\ i \in 0..(Len(src) + 1) /\ i <= Len(src)
      /\ ops \in Seq(Op) /\ used \subseteq VReg /\ NoReg \notin used
  BY <1>1, TypeFacts DEF PassInv
<1>3. PICK c \in 1..Len(src) : c = i
  BY <1>1, <1>2
<1>4. /\ ops[c].dst \in VReg \cup {NoReg}
      /\ Operands(ops[c]) \subseteq VReg
      /\ Touched(ops[c]) = ({ops[c].dst} \ {NoReg}) \cup Operands(ops[c])
  BY <1>2, OpFacts, OperandFacts DEF Touched
<1>5. used' \subseteq VReg
  BY <1>1, <1>2, <1>3, <1>4
<1>6. PassTypeOK'
  BY <1>1, <1>2, <1>5 DEF PassInv, PassTypeOK
<1>7. FoldInv'
  <2>1. \A n \in 1..Len(src) : Passed(n) /\ Passed(n)'
    BY <1>1 DEF Passed
  <2> QED
    BY <1>1, <2>1, KeepsFoldInv DEF PassInv
<1>8. /\ \A n \in 1..Len(src) : Swept(n) <=> n > c
      /\ \A n \in 1..Len(src) : Swept(n)' <=> n >= c
  BY <1>1, <1>2, <1>3 DEF Swept
<1>9. \A n \in 1..Len(src) :
        /\ IsNeeded(ops[n]) <=> ops[n].kind.name \in effectNames \/ ops[n].dst \in used
        /\ IsNeeded(ops[n])' <=> ops[n].kind.name \in effectNames \/ ops[n].dst \in used'
  BY <1>1 DEF IsNeeded
<1>10. used \subseteq used' /\ (IsNeeded(ops[c]) => Operands(ops[c]) \subseteq used')
  BY <1>1, <1>3, <1>4
<1>11. ASSUME NEW n \in 1..Len(src), n >= c, IsNeeded(ops[n])'
       PROVE  IsNeeded(ops[n])
  <2> SUFFICES ASSUME ~IsNeeded(ops[n]) PROVE FALSE
    OBVIOUS
  <2>1. ops[n].dst \in used' /\ ops[n].dst \notin used
    BY <1>9, <1>11
  <2>2. IsNeeded(ops[c]) /\ ops[n].dst \in Touched(ops[c]) /\ n # c
    BY <1>1, <1>3, <2>1
  <2>3. CASE ops[n].dst = ops[c].dst /\ ops[c].dst # NoReg
    BY <1>1, <2>2, <2>3, OptimisedOrder
  <2>4. CASE ops[n].dst \in Operands(ops[c])
    <3>1. PICK m \in 1..Len(src) : m < c /\ ops[m].dst = ops[n].dst
      BY <1>1, <2>4, OptimisedOrder
    <3>2. ops[n].dst # NoReg
      BY <1>4, <2>4, NoRegAssumption
    <3>3. m = n
      BY <1>1, <3>1, <3>2, OptimisedOrder
    <3> QED
      BY <1>11, <3>1, <3>3
  <2> QED
    BY <1>4, <2>2, <2>3, <2>4
<1>12. ASSUME NEW n \in 1..Len(src), n >= c, IsNeeded(ops[n])'
       PROVE  Operands(ops[n]) \subseteq used'
  <2>1. IsNeeded(ops[n])
    BY <1>11, <1>12
  <2>2. CASE n > c
    <3>1. Operands(ops[n]) \subseteq used
      BY <1>8, <2>1, <2>2 DEF PassInv, MarkInv
    <3> QED
      BY <1>10, <3>1
  <2>3. CASE n = c
    BY <1>10, <2>1, <2>3
  <2> QED
    BY <1>12, <2>2, <2>3
<1>13. ASSUME NEW v \in used'
       PROVE  \E n \in 1..Len(src) :
                n >= c /\ IsNeeded(ops[n])' /\ v \in Operands(ops[n])
  <2>1. CASE v \in used
    <3>1. PICK n \in 1..Len(src) : n > c /\ IsNeeded(ops[n]) /\ v \in Operands(ops[n])
      BY <1>8, <2>1 DEF PassInv, MarkInv
    <3>2. IsNeeded(ops[n])'
      BY <1>9, <1>10, <3>1
    <3>3. n >= c
      BY <3>1
    <3> QED
      BY <3>1, <3>2, <3>3
  <2>2. CASE v \notin used
    <3>1. IsNeeded(ops[c]) /\ v \in Touched(ops[c])
      BY <1>1, <1>3, <1>13, <2>2
    <3>2. v # ops[c].dst \/ ops[c].dst = NoReg
      BY <1>1, <1>9, <2>2, <3>1, OptimisedOrder
    <3>3. v \in Operands(ops[c])
      BY <1>4, <3>1, <3>2
    <3>4. IsNeeded(ops[c])' /\ c >= c
      BY <1>9, <1>10, <3>1
    <3> QED
      BY <3>3, <3>4
  <2> QED
    BY <2>1, <2>2
<1>14. MarkInv'
  <2>1. \A n \in 1..Len(src) : Operands(ops[n])' = Operands(ops[n])
    BY <1>1 DEF Operands
  <2> QED
    BY <1>1, <1>8, <1>12, <1>13, <2>1 DEF MarkInv
<1>15. RunInv'
  BY <1>1 DEF PassInv, RunInv, AllWide
<1>16. i' <= Len(src') /\ WellFormed(src')
  BY <1>1, <1>2 DEF PassInv
<1> QED
  BY <1>1, <1>6, <1>7, <1>14, <1>15, <1>16 DEF PassInv

(* What remains reads only what remains.                                   *)
LEMMA KeptClosed ==
  ASSUME PassInv, pc = "run", NEW n \in kept, n \in 1..Len(src), NEW v \in Operands(ops[n])
  PROVE  \E m \in 1..Len(src) : m < n /\ m \in kept /\ ops[m].dst = v
<1>1. IsNeeded(ops[n]) /\ kept = {m \in 1..Len(src) : IsNeeded(ops[m])}
  BY DEF PassInv, MarkInv
<1>2. v \in used
  BY <1>1 DEF PassInv, MarkInv, Swept
<1>3. PICK m \in 1..Len(src) : m < n /\ ops[m].dst = v
  BY OptimisedOrder
<1>4. IsNeeded(ops[m])
  BY <1>2, <1>3 DEF IsNeeded
<1> QED
  BY <1>1, <1>3, <1>4

(* The op that is run next.                                                *)
LEMMA RunsFacts ==
  ASSUME PassInv, NEW names, RunsOp(names)
  PROVE  /\ pc = "run" /\ i \in 1..Len(src) /\ src[i].kind.name \in names
         /\ src[i].args \in Seq(VReg \cup Imm) /\ Len(src[i].args) \in Nat
         /\ \A j \in 1..Len(src[i].args) : src[i].args[j] \in VReg \cup Imm
         /\ Values(env, src[i]) \in [1..Len(src[i].args) -> Imm]
<1>1. pc = "run" /\ i \in 1..Len(src) /\ src[i].kind.name \in names
  BY TypeFacts DEF RunsOp
<1>2. /\ src[i].args \in Seq(VReg \cup Imm) /\ Len(src[i].args) \in Nat
      /\ \A j \in 1..Len(src[i].args) : src[i].args[j] \in VReg \cup Imm
  BY <1>1, OpFacts, TypeFacts
<1>3. env \in [VReg -> Imm]
  BY TypeFacts
<1> QED
  BY <1>1, <1>2, <1>3 DEF Values

(* An operand const_fold knew has the value it knew.                       *)
LEMMA KnownValues ==
  ASSUME PassInv, pc = "run", AllWide, i \in 1..Len(src),
         NEW j \in 1..Len(src[i].args), IsKnown(src[i].args[j])
  PROVE  Values(env, src[i])[j] = KnownAs(src[i].args[j])
<1> DEFINE a == src[i].args[j]
<1>1. Values(env, src[i])[j] = IF a \in Imm THEN a ELSE env[a]
  BY DEF Values
<1>2. CASE a \in Imm
  BY <1>1, <1>2 DEF KnownAs
<1>3. CASE a \notin Imm
  <2>1. a \in DOMAIN known /\ KnownAs(a) = known[a]
    BY <1>3 DEF IsKnown, KnownAs
  <2>2. a \in Operands(src[i])
    BY <2>1, OperandFacts, TypeFacts
  <2>3. PICK m \in 1..Len(src) : m < i /\ src[m].dst = a
    BY <2>2, DefinedBefore, TypeFacts DEF PassInv
  <2>4. m \in 1..(i - 1)
    BY <2>3, TypeFacts
  <2>5. env[a] = known[a]
    BY <2>1, <2>3, <2>4 DEF PassInv, RunInv
  <2> QED
    BY <1>1, <1>3, <2>1, <2>5
<1> QED
  BY <1>2, <1>3

(* An op that remains and has not been folded gets the same values.        *)
LEMMA SameValues ==
  ASSUME PassInv, pc = "run", AllWide, i \in 1..Len(src), i \in kept, IsSubstituted(i)
  PROVE  Values(fenv, ops[i]) = Values(env, src[i])
<1>1. Len(ops[i].args) = Len(src[i].args)
  BY DEF IsSubstituted
<1>2. ASSUME NEW j \in 1..Len(src[i].args)
      PROVE  Values(fenv, ops[i])[j] = Values(env, src[i])[j]
  <2> DEFINE a == src[i].args[j]
             o == ops[i].args[j]
  <2>1. /\ Values(env, src[i])[j] = IF a \in Imm THEN a ELSE env[a]
        /\ Values(fenv, ops[i])[j] = IF o \in Imm THEN o ELSE fenv[o]
    BY <1>1 DEF Values
  <2>2. CASE o = a
    <3>1. CASE a \notin Imm
      <4>1. o \in VReg
        BY <1>1, <2>2, <3>1, OpFacts, TypeFacts
      <4>2. o \in Operands(ops[i])
        BY <1>1, <4>1, OperandFacts, TypeFacts
      <4>3. PICK m \in 1..Len(src) : m < i /\ m \in kept /\ ops[m].dst = o
        BY <4>2, KeptClosed
      <4>4. m \in 1..(i - 1) /\ src[m].dst = o /\ o # NoReg
        BY <4>1, <4>3, OptimisedFacts, TypeFacts, NoRegAssumption
      <4>5. fenv[o] = env[o]
        BY <4>3, <4>4 DEF PassInv, RunInv
      <4> QED
        BY <2>1, <2>2, <3>1, <4>5
    <3> QED
      BY <2>1, <2>2, <3>1
  <2>3. CASE IsKnown(a) /\ o = KnownAs(a)
    <3>1. Values(env, src[i])[j] = KnownAs(a)
      BY <2>3, KnownValues
    <3>2. o \in Imm
      BY <2>3, TypeFacts DEF IsKnown, KnownAs
    <3> QED
      BY <2>1, <2>3, <3>1, <3>2
  <2> QED
    BY <2>2, <2>3 DEF IsSubstituted
<1>3. /\ Values(fenv, ops[i]) = [j \in 1..Len(src[i].args) |-> Values(fenv, ops[i])[j]]
      /\ Values(env, src[i]) = [j \in 1..Len(src[i].args) |-> Values(env, src[i])[j]]
  BY <1>1 DEF Values
<1> QED
  BY <1>2, <1>3

(* What a step that runs an op must show.                                  *)
LEMMA RunStep ==
  ASSUME PassInv, pc = "run", i \in 1..Len(src), i' = i + 1,
         UNCHANGED <<passVars, pc>>,
         env' \in [VReg -> Imm], fenv' \in [VReg -> Imm], RunInv'
  PROVE  PassInv'
<1>1. UNCHANGED <<src, ops, pc, known, used, kept>> /\ Len(src) \in Nat
  BY TypeFacts DEF passVars
<1>2. i' \in 0..(Len(src) + 1) /\ i' >= 1
  BY <1>1
<1>3. PassTypeOK'
  BY <1>1, <1>2 DEF PassInv, PassTypeOK
<1>4. FoldInv'
  <2>1. \A n \in 1..Len(src) : Passed(n) /\ Passed(n)'
    BY <1>1 DEF Passed
  <2> QED
    BY <1>1, <2>1, KeepsFoldInv DEF PassInv
<1>5. MarkInv'
  <2>1. \A n \in 1..Len(src) : Swept(n) /\ Swept(n)'
    BY <1>1 DEF Swept
  <2>2. kept' = {n \in 1..Len(src) : IsNeeded(ops[n])}
    BY <1>1 DEF PassInv, MarkInv
  <2> QED
    BY <1>1, <2>1, <2>2, KeepsMarkInv DEF PassInv
<1> QED
  BY <1>1, <1>2, <1>3, <1>4, <1>5 DEF PassInv

(* An op with a result: x in the block, y in its optimised form.           *)
LEMMA DefineStep ==
  ASSUME PassInv, pc = "run", i \in 1..Len(src), i' = i + 1,
         UNCHANGED <<passVars, pc, out, fout>>,
         src[i].dst # NoReg,
         NEW x \in Imm, NEW y \in Imm,
         env' = [env EXCEPT ![src[i].dst] = x],
         fenv' = IF i \in kept THEN [fenv EXCEPT ![src[i].dst] = y] ELSE fenv,
         AllWide => /\ src[i].dst \in DOMAIN known => x = known[src[i].dst]
                    /\ i \in kept => x = y
  PROVE  PassInv'
<1>1. PICK c \in 1..Len(src) : c = i
  OBVIOUS
<1>2. PICK d \in VReg : d = src[c].dst
  BY <1>1, OpFacts, TypeFacts
<1>3. UNCHANGED <<src, ops, pc, known, used, kept, out, fout>> /\ Len(src) \in Nat
  BY TypeFacts DEF passVars
<1>4. env \in [VReg -> Imm] /\ fenv \in [VReg -> Imm]
  BY TypeFacts
<1>5. /\ env' \in [VReg -> Imm] /\ fenv' \in [VReg -> Imm]
      /\ env'[d] = x /\ (c \in kept => fenv'[d] = y)
      /\ \A v \in VReg \ {d} : env'[v] = env[v] /\ fenv'[v] = fenv[v]
  BY <1>1, <1>2, <1>4
<1>6. RunInv'
  <2> SUFFICES ASSUME AllWide', NEW n \in 1..(i' - 1)
               PROVE  /\ fout' = out'
                      /\ src[n].dst \in DOMAIN known => env'[src[n].dst] = known[src[n].dst]
                      /\ n \in kept /\ src[n].dst # NoReg => fenv'[src[n].dst] = env'[src[n].dst]
    <3>1. fout = out \/ ~AllWide
      BY DEF PassInv, RunInv
    <3>2. AllWide' <=> AllWide
      BY <1>3 DEF AllWide
    <3> QED
      BY <1>3, <3>1, <3>2 DEF RunInv
  <2>1. AllWide /\ fout' = out'
    BY <1>3 DEF AllWide, PassInv, RunInv
  <2>2. n \in 1..c /\ n \in 1..Len(src)
    BY <1>1, <1>3
  <2>3. CASE n = c
    BY <1>1, <1>2, <1>5, <2>1, <2>3
  <2>4. CASE n # c
    <3>1. n \in 1..(i - 1)
      BY <1>1, <1>3, <2>2, <2>4
    <3>2. /\ src[n].dst \in DOMAIN known => env[src[n].dst] = known[src[n].dst]
          /\ n \in kept /\ src[n].dst # NoReg => fenv[src[n].dst] = env[src[n].dst]
      BY <2>1, <3>1 DEF PassInv, RunInv
    <3>3. src[n].dst # d
      BY <1>1, <1>2, <2>2, <2>4, DefinedOnce, TypeFacts DEF PassInv
    <3>4. src[n].dst \in VReg \cup {NoReg}
      BY <2>2, OpFacts, TypeFacts
    <3> QED
      BY <1>5, <2>1, <3>2, <3>3, <3>4, TypeFacts
  <2> QED
    BY <2>3, <2>4
<1> QED
  BY <1>3, <1>5, <1>6, RunStep

(* A result is read or computed into a vreg.                               *)
LEMMA HasResult ==
  ASSUME PassInv, NEW n \in 1..Len(src), src[n].kind.name \notin effectNames
  PROVE  src[n].dst # NoReg
BY DEF PassInv, WellFormed

(* The arithmetic stays in the immediates.                                 *)
LEMMA RunType ==
  ASSUME NEW t \in aluNames, NEW w \in BOOLEAN, NEW a \in Imm, NEW b \in Imm
  PROVE  Run(t, w, a, b) \in Imm
<1>1. Fold(t, a, b) \in Imm
  BY ArithmeticAssumption
<1>2. Run(t, TRUE, a, b) = Fold(t, a, b)
  BY ArithmeticAssumption
<1>3. Run(t, FALSE, a, b) \in Imm
  BY ArithmeticAssumption
<1>4. CASE w = TRUE
  BY <1>1, <1>2, <1>4
<1>5. CASE w = FALSE
  BY <1>3, <1>5
<1> QED
  BY <1>4, <1>5

LEMMA RunAluInv == PassInv /\ RunAlu => PassInv'
<1> SUFFICES ASSUME PassInv, RunAlu PROVE PassInv'
  OBVIOUS
<1>1. RunsOp(aluNames)
  BY DEF RunAlu
<1>2. /\ pc = "run" /\ i \in 1..Len(src) /\ src[i].kind.name \in aluNames
      /\ Values(env, src[i]) \in [1..Len(src[i].args) -> Imm]
  BY <1>1, RunsFacts
<1>3. /\ src[i].dst # NoReg /\ Len(src[i].args) = 2
      /\ src[i].kind.wide \in BOOLEAN
  BY <1>2, HasResult, NamesFacts, OpFacts, KindFacts, TypeFacts DEF PassInv, WellFormed
<1>4. PICK a \in Imm, b \in Imm : a = Values(env, src[i])[1] /\ b = Values(env, src[i])[2]
  BY <1>2, <1>3
<1>5. PICK t \in aluNames : t = src[i].kind.name
  BY <1>2
<1>6. PICK x \in Imm : x = AluResult(env, src[i])
  <2>1. AluResult(env, src[i]) = Run(t, src[i].kind.wide, a, b)
    BY <1>4, <1>5 DEF AluResult
  <2> QED
    BY <1>3, <2>1, RunType
<1>7. ops[i].dst = src[i].dst
  BY <1>2, OptimisedFacts
<1>8. ASSUME AllWide
      PROVE  /\ src[i].dst \in DOMAIN known => x = known[src[i].dst]
             /\ i \in kept => AluResult(fenv, ops[i]) = x
  <2>1. x = Fold(t, a, b)
    <3>1. src[i].kind.wide = TRUE
      BY <1>2, <1>3, <1>8 DEF AllWide
    <3>2. x = Run(t, TRUE, a, b)
      BY <1>4, <1>5, <1>6, <3>1 DEF AluResult
    <3> QED
      BY <3>2, ArithmeticAssumption
  <2>2. IF src[i].dst \in DOMAIN known THEN IsFolded(i) ELSE IsSubstituted(i)
    BY <1>2 DEF PassInv, FoldInv, Passed
  <2>3. CASE src[i].dst \in DOMAIN known
    <3>1. IsFolded(i)
      BY <2>2, <2>3
    <3>2. a = KnownAs(src[i].args[1]) /\ b = KnownAs(src[i].args[2])
      BY <1>2, <1>3, <1>4, <1>8, <3>1, KnownValues DEF IsFolded
    <3>3. known[src[i].dst] = x
      BY <1>5, <2>1, <3>1, <3>2 DEF IsFolded
    <3>4. ops[i] = Constant(src[i].dst, x)
      BY <3>1, <3>3 DEF IsFolded
    <3>5. /\ ops[i].kind.name = "or" /\ ops[i].kind.wide = TRUE
          /\ ops[i].args = <<x, Zero>>
      BY <3>4 DEF Constant
    <3>6. Zero \in Imm
      BY PassAssumption
    <3>7. Values(fenv, ops[i])[1] = x /\ Values(fenv, ops[i])[2] = Zero
      BY <3>5, <3>6 DEF Values
    <3>8. AluResult(fenv, ops[i]) = Run("or", TRUE, x, Zero)
      BY <3>5, <3>7 DEF AluResult
    <3>9. Run("or", TRUE, x, Zero) = x
      BY NamesFacts, ArithmeticAssumption
    <3> QED
      BY <3>3, <3>8, <3>9
  <2>4. CASE src[i].dst \notin DOMAIN known
    <3>1. IsSubstituted(i)
      BY <2>2, <2>4
    <3>2. i \in kept => Values(fenv, ops[i]) = Values(env, src[i])
      BY <1>2, <1>8, <3>1, SameValues
    <3>3. ops[i].kind = src[i].kind
      BY <3>1 DEF IsSubstituted
    <3> QED
      BY <1>6, <2>4, <3>2, <3>3 DEF AluResult
  <2> QED
    BY <2>3, <2>4
<1>9. AluResult(fenv, ops[i]) \in Imm
  <2>1. /\ ops[i].kind.name \in aluNames /\ Len(ops[i].args) = 2
        /\ ops[i].kind.wide \in BOOLEAN
    <3>1. IF src[i].dst \in DOMAIN known THEN IsFolded(i) ELSE IsSubstituted(i)
      BY <1>2 DEF PassInv, FoldInv, Passed
    <3>2. CASE IsFolded(i)
      <4>1. ops[i] = Constant(src[i].dst, known[src[i].dst])
        BY <3>2 DEF IsFolded
      <4>2. /\ ops[i].kind.name = "or" /\ ops[i].kind.wide = TRUE
            /\ ops[i].args = <<known[src[i].dst], Zero>>
        BY <4>1 DEF Constant
      <4>3. Len(ops[i].args) = 2
        BY <4>2
      <4> QED
        BY <4>2, <4>3, NamesFacts
    <3>3. CASE IsSubstituted(i)
      BY <1>2, <1>3, <3>3 DEF IsSubstituted
    <3> QED
      BY <3>1, <3>2, <3>3
  <2>2. \A j \in 1..2 : ops[i].args[j] \in VReg \cup Imm
    BY <1>2, <2>1, OpFacts, TypeFacts
  <2>3. Values(fenv, ops[i])[1] \in Imm /\ Values(fenv, ops[i])[2] \in Imm
    BY <2>1, <2>2, TypeFacts DEF Values
  <2> QED
    BY <2>1, <2>3, RunType DEF AluResult
<1>10. PICK y \in Imm : y = AluResult(fenv, ops[i])
  BY <1>9
<1>11. /\ env' = [env EXCEPT ![src[i].dst] = x]
       /\ fenv' = IF i \in kept THEN [fenv EXCEPT ![src[i].dst] = y] ELSE fenv
       /\ i' = i + 1 /\ UNCHANGED <<passVars, pc, out, fout>>
  BY <1>6, <1>7, <1>10 DEF RunAlu
<1>12. AllWide => /\ src[i].dst \in DOMAIN known => x = known[src[i].dst]
                  /\ i \in kept => x = y
  BY <1>8, <1>10
<1> QED
  BY <1>2, <1>3, <1>11, <1>12, DefineStep

LEMMA RunReadInv == PassInv /\ RunRead => PassInv'
<1> SUFFICES ASSUME PassInv, RunRead PROVE PassInv'
  OBVIOUS
<1>1. RunsOp(readNames)
  BY DEF RunRead
<1>2. pc = "run" /\ i \in 1..Len(src) /\ src[i].kind.name \in readNames
  BY <1>1, RunsFacts
<1>3. src[i].dst # NoReg
  BY <1>2, HasResult, NamesFacts
<1>4. ops[i].dst = src[i].dst
  BY <1>2, OptimisedFacts
<1>5. PICK x \in World, y \in World :
        /\ Values(env, src[i]) = Values(fenv, ops[i]) /\ out = fout => x = y
        /\ env' = [env EXCEPT ![src[i].dst] = x]
        /\ fenv' = IF i \in kept THEN [fenv EXCEPT ![ops[i].dst] = y] ELSE fenv
  BY DEF RunRead
<1>6. i' = i + 1 /\ UNCHANGED <<passVars, pc, out, fout>>
  BY DEF RunRead
<1>7. x \in Imm /\ y \in Imm
  BY PassAssumption
<1>8. src[i].dst \notin DOMAIN known
  BY <1>2, NamesFacts DEF PassInv, FoldInv, Passed, IsFolded
<1>9. ASSUME AllWide, i \in kept PROVE x = y
  <2>1. out = fout
    BY <1>9 DEF PassInv, RunInv
  <2>2. IsSubstituted(i)
    BY <1>2, <1>8 DEF PassInv, FoldInv, Passed
  <2>3. Values(fenv, ops[i]) = Values(env, src[i])
    BY <1>2, <1>9, <2>2, SameValues
  <2> QED
    BY <1>5, <2>1, <2>3
<1> QED
  BY <1>2, <1>3, <1>4, <1>5, <1>6, <1>7, <1>8, <1>9, DefineStep

(* An effect is never removed, and its operands are the same.              *)
LEMMA RunEffectInv == PassInv /\ RunEffect => PassInv'
<1> SUFFICES ASSUME PassInv, RunEffect PROVE PassInv'
  OBVIOUS
<1>1. RunsOp(effectNames)
  BY DEF RunEffect
<1>2. /\ pc = "run" /\ i \in 1..Len(src) /\ src[i].kind.name \in effectNames
      /\ Len(src) \in Nat
  BY <1>1, RunsFacts, TypeFacts
<1>3. /\ out' = Append(out, <<i, Values(env, src[i])>>)
      /\ fout' = IF i \in kept THEN Append(fout, <<i, Values(fenv, ops[i])>>) ELSE fout
      /\ i' = i + 1 /\ UNCHANGED <<passVars, pc, env, fenv>>
  BY DEF RunEffect
<1>4. UNCHANGED <<src, ops, known, used, kept>>
  BY <1>3 DEF passVars
<1>5. i \in kept
  <2>1. ops[i].kind.name \in effectNames
    BY <1>2, OptimisedFacts
  <2> QED
    BY <1>2, <2>1 DEF PassInv, MarkInv, IsNeeded
<1>6. src[i].dst = NoReg
  BY <1>2 DEF PassInv, WellFormed
<1>7. IsSubstituted(i)
  BY <1>2, <1>6, TypeFacts DEF PassInv, FoldInv, Passed
<1>8. AllWide => fout' = out'
  BY <1>2, <1>3, <1>5, <1>7, SameValues DEF PassInv, RunInv
<1>9. RunInv'
  <2> SUFFICES ASSUME AllWide, NEW n \in 1..(i' - 1)
               PROVE  /\ src[n].dst \in DOMAIN known => env[src[n].dst] = known[src[n].dst]
                      /\ n \in kept /\ src[n].dst # NoReg => fenv[src[n].dst] = env[src[n].dst]
    BY <1>3, <1>4, <1>8 DEF RunInv, AllWide
  <2>1. CASE n = i
    BY <1>6, <2>1, TypeFacts
  <2>2. CASE n # i
    <3>1. n \in 1..(i - 1)
      BY <1>2, <1>3, <2>2
    <3> QED
      BY <1>2, <3>1 DEF PassInv, RunInv
  <2> QED
    BY <2>1, <2>2
<1> QED
  BY <1>2, <1>3, <1>4, <1>9, RunStep, TypeFacts

LEMMA StutterInv == PassInv /\ UNCHANGED vars => PassInv'
BY DEF vars, PassInv, PassTypeOK, WellFormed, FoldInv, MarkInv, RunInv, Passed, Swept,
       IsFolded, IsSubstituted, IsKnown, KnownAs, IsNeeded, AllWide, Constant, Operands

LEMMA NextInv == PassInv /\ [Next]_vars => PassInv'
<1> SUFFICES ASSUME PassInv, [Next]_vars PROVE PassInv'
  OBVIOUS
<1>1. CASE Ended \/ UNCHANGED vars
  BY <1>1, StutterInv DEF Ended
<1> QED
  BY <1>1, FoldOpInv, FoldedInv, MarkOpInv, MarkedInv, RetainInv,
     RunAluInv, RunReadInv, RunEffectInv DEF Next

(* const_fold and dead_code_elim keep the relation between the block, what *)
(* they know of it and what it does.                                       *)
THEOREM PassInvHolds == Spec => []PassInv
BY InitInv, NextInv, PTL DEF Spec

(* Every variable of the passes has its type.                              *)
THEOREM PassTypeCorrect == Spec => []PassTypeOK
<1>1. PassInv => PassTypeOK
  BY DEF PassInv
<1> QED
  BY <1>1, PassInvHolds, PTL

(* Optimising full-width code changes nothing it does, in any block and    *)
(* whatever loads and state reads return.                                  *)
THEOREM FullWidthPreserved == Spec => []WideIsPreserved
<1>1. PassInv => WideIsPreserved
  BY DEF PassInv, RunInv, WideIsPreserved, PreservesEffects
<1> QED
  BY <1>1, PassInvHolds, PTL

(* One backward sweep of dead_code_elim removes all that is dead, the ops  *)
(* that computed folded constants among it, and nothing else.              *)
THEOREM DeadCodeIsExact == Spec => []ExactlyDeadRemoved
<1>1. PassInv => ExactlyDeadRemoved
  <2> SUFFICES ASSUME PassInv, pc = "run", NEW n \in 1..Len(ops)
               PROVE  n \in kept <=>
                        \/ ops[n].kind.name \in effectNames
                        \/ \E m \in kept : ops[n].dst \in Operands(ops[m])
    BY DEF ExactlyDeadRemoved
  <2>1. n \in 1..Len(src)
    BY TypeFacts
  <2>2. kept = {m \in 1..Len(src) : IsNeeded(ops[m])}
    BY DEF PassInv, MarkInv
  <2>3. n \in kept <=> ops[n].kind.name \in effectNames \/ ops[n].dst \in used
    BY <2>1, <2>2 DEF IsNeeded
  <2>4. \A v : v \in used <=> \E m \in kept : v \in Operands(ops[m])
    BY <2>2 DEF PassInv, MarkInv, Swept
  <2> QED
    BY <2>3, <2>4
<1> QED
  BY <1>1, PassInvHolds, PTL
=============================================================================
