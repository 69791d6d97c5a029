---------------------------- MODULE MCLinearScan ----------------------------
(***************************************************************************)
(* Instances of LinearScan.  The blocks are those an IrBuilder can make:   *)
(* op n either defines the n-th vreg or defines nothing (a store), and its *)
(* operands were defined by earlier ops.                                   *)
(***************************************************************************)
EXTENDS LinearScan

CONSTANTS v1, v2, v3, v4, v5, RAX, RBX, MaxOps, MaxOperands

MCVRegSeq == <<v1, v2, v3, v4, v5>>
MCVReg == {MCVRegSeq[n] : n \in 1..MaxOps}
MCHostGpr == {RAX, RBX}
MCHostGprs == <<RAX, RBX>>

RECURSIVE SsaBlocks(_)
SsaBlocks(n) ==
  IF n = 0 THEN {<<>>}
  ELSE UNION {LET defined == {b[m].dst : m \in 1..(n - 1)} \ {NoReg}
              IN  {Append(b, [kind |-> "op", dst |-> d, args |-> SetToSeq(o)]) :
                     d \in {MCVRegSeq[n], NoReg},
                     o \in {x \in SUBSET defined : Cardinality(x) <= MaxOperands}}
                : b \in SsaBlocks(n - 1)}

MCKind == {"op"}
MCImm == {}
MCBlocks == SsaBlocks(MaxOps)
=============================================================================
