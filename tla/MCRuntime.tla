------------------------------ MODULE MCRuntime ------------------------------
(***************************************************************************)
(* Runtime on a memory of three words, seen twice by a pc of six values,   *)
(* so that two cached blocks may come from the same words.  Blocks hold at *)
(* most two instructions, and MaxBytes holds two or three blocks.          *)
(***************************************************************************)
EXTENDS Runtime

CONSTANTS li, st, ld, bc, un, b1, b2, b3, b4

MCWord == {li, st, ld, bc, un}
MCPc == 0..5

(* li loads the word bc, st and ld store and load the last word of memory, *)
(* bc goes to the second name of the last word when the register holds bc, *)
(* un is no instruction.                                                   *)
MCDecode ==
  [w \in MCWord |->
     CASE w = li -> [kind |-> "set", val |-> bc]
       [] w = st -> [kind |-> "store", cell |-> 2]
       [] w = ld -> [kind |-> "load", cell |-> 2]
       [] w = bc -> [kind |-> "branch", on |-> bc, target |-> 5]
       [] w = un -> [kind |-> "unknown"]]

MCBuffer3 == {b1, b2, b3}
MCBuffer4 == {b1, b2, b3, b4}
MCCodeLens == 2..3
MCSymmetry == Permutations(Buffer)

None == {}
LastCell == {2}
OuterCells == {0, 2}
Start == {0}
Starts == {0, 3}
MCMemories ==
  {[c \in 0..2 |-> m[c + 1]] : m \in {<<li, bc, st>>, <<bc, st, ld>>, <<st, un, li>>}}
=============================================================================
