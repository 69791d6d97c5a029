-------------------------------- MODULE Passes --------------------------------
(***************************************************************************)
(* The optimisation passes, src/core/passes.rs: const_fold replaces uses   *)
(* of known values by immediates and folds ops on immediates, one op at a  *)
(* time; dead_code_elim marks what is used in one sweep from the end and   *)
(* drops the rest.  The block and its optimised form are then run side by  *)
(* side, op by op, to compare what they do.                                *)
(*                                                                         *)
(* The optimised block keeps the positions of the ops: those in kept, of   *)
(* the sequence ops, are the ones that remain.                             *)
(***************************************************************************)
EXTENDS Ir

CONSTANTS
  Blocks,          \* the blocks the passes may be called on
  Zero,            \* the immediate 0
  World,           \* values that loads and reads of the CPU state return
  Fold(_, _, _),   \* const_fold's arithmetic: of an op's name and two immediates
  Run(_, _, _, _)  \* the emitted code's: of a name, whether wide, two values

ASSUME PassAssumption ==
  /\ Kind = [name : aluNames \cup readNames \cup effectNames, wide : BOOLEAN]
  /\ Blocks \subseteq Seq(Op)
  /\ \A b \in Blocks : WellFormed(b)
  /\ Zero \in Imm
  /\ World \subseteq Imm

ASSUME ArithmeticAssumption ==
  \A name \in aluNames, x, y \in Imm :
    /\ Fold(name, x, y) \in Imm
    /\ Run(name, TRUE, x, y) = Fold(name, x, y)
    /\ Run(name, FALSE, x, y) \in Imm
    /\ Run("or", TRUE, x, Zero) = x

VARIABLES
  src,     \* the block as the passes get it
  ops,     \* the block as they change it
  pc,      \* "fold", "mark", "retain", then "run"
  i,       \* the op being visited
  known,   \* const_fold's HashMap from vregs to constants
  used,    \* dead_code_elim's HashSet of vregs
  kept,    \* the positions retain() leaves
  env,     \* values of vregs as the block runs
  fenv,    \* and as the optimised block does
  out,     \* effects of the block so far: positions and operands
  fout     \* and of the optimised block

vars == <<src, ops, pc, i, known, used, kept, env, fenv, out, fout>>

passVars == <<src, ops, known, used, kept>>
runVars == <<env, fenv, out, fout>>

Init ==
  /\ src \in Blocks
  /\ ops = src
  /\ pc = "fold"
  /\ i = 1
  /\ known = [v \in {} |-> Zero]
  /\ used = {}
  /\ kept = {}
  /\ env = [v \in VReg |-> Zero]
  /\ fenv = env
  /\ out = <<>>
  /\ fout = <<>>

-----------------------------------------------------------------------------
subst_op(op) ==
  [op EXCEPT !.args =
     [j \in DOMAIN op.args |->
        IF op.args[j] \in DOMAIN known THEN known[op.args[j]] ELSE op.args[j]]]

Foldable(op) ==
  op.kind.name \in aluNames /\ \A j \in 1..Len(op.args) : op.args[j] \in Imm

(* What a folded op becomes: Or of its value and 0, in 64 bits.            *)
Constant(dst, x) ==
  [kind |-> [name |-> "or", wide |-> TRUE], dst |-> dst, args |-> <<x, Zero>>]

FoldOp ==
  /\ pc = "fold"
  /\ i <= Len(ops)
  /\ LET op == subst_op(ops[i])
         x  == Fold(op.kind.name, op.args[1], op.args[2])
     IN  IF Foldable(op)
         THEN /\ known' = [v \in DOMAIN known \cup {op.dst} |->
                             IF v = op.dst THEN x ELSE known[v]]
              /\ ops' = [ops EXCEPT ![i] = Constant(op.dst, x)]
         ELSE /\ ops' = [ops EXCEPT ![i] = op]
              /\ UNCHANGED known
  /\ i' = i + 1
  /\ UNCHANGED <<src, pc, used, kept, runVars>>

(* dead_code_elim is called, and starts from the last op.                  *)
Folded ==
  /\ pc = "fold"
  /\ i > Len(ops)
  /\ pc' = "mark"
  /\ i' = Len(ops)
  /\ UNCHANGED <<passVars, runVars>>

(* Faulty: a result counts as used although nothing reads it.              *)
Always(op) == TRUE

(* Faulty: only effects are kept, not what they need.                      *)
EffectsOnly(op) == op.kind.name \in effectNames

(* The condition of both loops of dead_code_elim.                          *)
IsNeeded(op) == op.kind.name \in effectNames \/ op.dst \in used

MarkOp ==
  /\ pc = "mark"
  /\ i >= 1
  /\ used' = IF IsNeeded(ops[i]) THEN used \cup Touched(ops[i]) ELSE used
  /\ i' = i - 1
  /\ UNCHANGED <<src, ops, pc, known, kept, runVars>>

Marked ==
  /\ pc = "mark"
  /\ i = 0
  /\ pc' = "retain"
  /\ UNCHANGED <<passVars, i, runVars>>

Retain ==
  /\ pc = "retain"
  /\ kept' = {n \in 1..Len(ops) : IsNeeded(ops[n])}
  /\ pc' = "run"
  /\ i' = 1
  /\ UNCHANGED <<src, ops, known, used, runVars>>

-----------------------------------------------------------------------------
(* Running the two blocks.                                                 *)

Values(e, op) ==
  [j \in 1..Len(op.args) |-> IF op.args[j] \in Imm THEN op.args[j] ELSE e[op.args[j]]]

RunsOp(names) == pc = "run" /\ i <= Len(src) /\ src[i].kind.name \in names

AluResult(e, op) ==
  Run(op.kind.name, op.kind.wide, Values(e, op)[1], Values(e, op)[2])

RunAlu ==
  /\ RunsOp(aluNames)
  /\ env' = [env EXCEPT ![src[i].dst] = AluResult(env, src[i])]
  /\ fenv' = IF i \in kept THEN [fenv EXCEPT ![ops[i].dst] = AluResult(fenv, ops[i])]
             ELSE fenv
  /\ i' = i + 1
  /\ UNCHANGED <<passVars, pc, out, fout>>

(* The optimised block reads the same value if it has had the same effects *)
(* so far and reads from the same place.                                   *)
RunRead ==
  /\ RunsOp(readNames)
  /\ \E x, y \in World :
       /\ Values(env, src[i]) = Values(fenv, ops[i]) /\ out = fout => x = y
       /\ env' = [env EXCEPT ![src[i].dst] = x]
       /\ fenv' = IF i \in kept THEN [fenv EXCEPT ![ops[i].dst] = y] ELSE fenv
  /\ i' = i + 1
  /\ UNCHANGED <<passVars, pc, out, fout>>

RunEffect ==
  /\ RunsOp(effectNames)
  /\ out' = Append(out, <<i, Values(env, src[i])>>)
  /\ fout' = IF i \in kept THEN Append(fout, <<i, Values(fenv, ops[i])>>) ELSE fout
  /\ i' = i + 1
  /\ UNCHANGED <<passVars, pc, env, fenv>>

Ended == pc = "run" /\ i > Len(src) /\ UNCHANGED vars

Next ==
  \/ FoldOp \/ Folded \/ MarkOp \/ Marked \/ Retain
  \/ RunAlu \/ RunRead \/ RunEffect \/ Ended

Spec == Init /\ [][Next]_vars
-----------------------------------------------------------------------------
(* Every variable has its type.                                            *)
PassTypeOK ==
  /\ src \in Seq(Op)
  /\ ops \in Seq(Op)
  /\ Len(ops) = Len(src)
  /\ pc \in {"fold", "mark", "retain", "run"}
  /\ i \in 0..(Len(src) + 1)
  /\ DOMAIN known \subseteq VReg /\ \A v \in DOMAIN known : known[v] \in Imm
  /\ used \subseteq VReg
  /\ kept \subseteq 1..Len(src)
  /\ env \in [VReg -> Imm]
  /\ fenv \in [VReg -> Imm]

(* The optimised block does what the block does, in the same order and     *)
(* with the same values.                                                   *)
PreservesEffects == fout = out

(* It does where arithmetic is on the full width, which const_fold assumes *)
(* whatever the width of the op.                                           *)
AllWide == \A n \in 1..Len(src) : src[n].kind.name \in aluNames => src[n].kind.wide

WideIsPreserved == AllWide => PreservesEffects

(* Nothing that remains reads what has been removed, and all that remains  *)
(* has an effect or is read: one sweep is enough, and folded constants     *)
(* leave no code behind.                                                   *)
ExactlyDeadRemoved ==
  pc = "run" =>
    \A n \in 1..Len(ops) :
      n \in kept <=>
        \/ ops[n].kind.name \in effectNames
        \/ \E m \in kept : ops[n].dst \in Operands(ops[m])

-----------------------------------------------------------------------------
(* The inductive invariant behind the properties above.                    *)

(* The ops that const_fold has passed.                                     *)
Passed(n) == pc # "fold" \/ n < i

IsKnown(a) == a \in Imm \/ a \in DOMAIN known

KnownAs(a) == IF a \in Imm THEN a ELSE known[a]

(* Op n has become the constant that known has for its destination, which  *)
(* is what const_fold computes from what it knows of the operands.         *)
IsFolded(n) ==
  /\ src[n].kind.name \in aluNames
  /\ \A j \in 1..2 : IsKnown(src[n].args[j])
  /\ known[src[n].dst] =
       Fold(src[n].kind.name, KnownAs(src[n].args[1]), KnownAs(src[n].args[2]))
  /\ ops[n] = Constant(src[n].dst, known[src[n].dst])

(* Op n is as it was, but for operands replaced by their constants.        *)
IsSubstituted(n) ==
  /\ ops[n].kind = src[n].kind
  /\ ops[n].dst = src[n].dst
  /\ Len(ops[n].args) = Len(src[n].args)
  /\ \A j \in 1..Len(src[n].args) :
       \/ ops[n].args[j] = src[n].args[j]
       \/ IsKnown(src[n].args[j]) /\ ops[n].args[j] = KnownAs(src[n].args[j])

FoldInv ==
  /\ \A v \in DOMAIN known : \E n \in 1..Len(src) : Passed(n) /\ src[n].dst = v
  /\ \A n \in 1..Len(src) :
       IF Passed(n)
       THEN IF src[n].dst \in DOMAIN known THEN IsFolded(n) ELSE IsSubstituted(n)
       ELSE ops[n] = src[n]

(* The ops that the sweep of dead_code_elim has passed.                    *)
Swept(n) == pc \in {"retain", "run"} \/ (pc = "mark" /\ n > i)

(* used has the operands of the ops passed that are needed, and no more.   *)
MarkInv ==
  /\ \A n \in 1..Len(src) :
       Swept(n) /\ IsNeeded(ops[n]) => Operands(ops[n]) \subseteq used
  /\ \A v \in used : \E n \in 1..Len(src) :
       Swept(n) /\ IsNeeded(ops[n]) /\ v \in Operands(ops[n])
  /\ pc = "run" => kept = {n \in 1..Len(src) : IsNeeded(ops[n])}

(* A folded vreg has the value const_fold computed for it, and the two     *)
(* blocks agree on every value that is still computed.                     *)
RunInv ==
  AllWide =>
    /\ fout = out
    /\ pc = "run" => \A n \in 1..(i - 1) :
         /\ src[n].dst \in DOMAIN known => env[src[n].dst] = known[src[n].dst]
         /\ n \in kept /\ src[n].dst # NoReg => fenv[src[n].dst] = env[src[n].dst]

PassInv ==
  /\ PassTypeOK
  /\ WellFormed(src)
  /\ pc \in {"fold", "run"} => i >= 1
  /\ pc = "mark" => i <= Len(src)
  /\ FoldInv
  /\ MarkInv
  /\ RunInv
=============================================================================
