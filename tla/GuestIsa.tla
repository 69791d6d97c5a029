------------------------------- MODULE GuestIsa -------------------------------
(***************************************************************************)
(* The guest as the dispatcher sees it: words of memory that decode to     *)
(* instructions of one fixed size, one register and a program counter.     *)
(* The kinds of instruction are those that differ for translation and      *)
(* caching: register ops, loads, stores, branches that may be conditional, *)
(* and words that no decoder accepts (frontends/wii_ppc.rs).               *)
(*                                                                         *)
(* Addresses count instructions.  A 64-bit pc is wider than the memory, so *)
(* several pcs, reduced modulo the size, name the same word.               *)
(***************************************************************************)
EXTENDS Naturals

CONSTANTS
  Word,    \* the values of a memory word and of the register
  Size,    \* words in memory
  PcMod,   \* the pc wraps here
  Decode,  \* what each word decodes to
  Always   \* the condition of an unconditional branch

Cell == 0..(Size - 1)
GuestPc == 0..(PcMod - 1)

Insn ==
  [kind : {"set"}, val : Word]                                 \* addi, ori, ...
    \cup [kind : {"load", "store"}, cell : Cell]
    \cup [kind : {"branch"}, on : Word \cup {Always}, target : GuestPc]
    \cup [kind : {"unknown"}]

ASSUME MemoryAssumption ==
  /\ Size \in Nat \ {0}
  /\ PcMod \in Nat \ {0}
  /\ Always \notin Word

ASSUME DecodeAssumption == Decode \in [Word -> Insn]

(* fetch_guest_bytes reads modulo the size of the map.                     *)
Fetch(m, p) == Decode[m[p % Size]]

(* wrapping_add                                                            *)
PcPlus(p, n) == IF p + n < PcMod THEN p + n ELSE p + n - PcMod

IsTerminator(insn) == insn.kind \in {"branch", "unknown"}

(* The effect of one instruction at p on memory m and register a.          *)
MemAfter(insn, m, a) ==
  IF insn.kind = "store" THEN [m EXCEPT ![insn.cell] = a] ELSE m

AccAfter(insn, m, a) ==
  CASE insn.kind = "set"  -> insn.val
    [] insn.kind = "load" -> m[insn.cell]
    [] OTHER              -> a

(* An unknown word has no effect: the pc moves past it.                    *)
PcAfter(insn, p, a) ==
  IF insn.kind = "branch" /\ insn.on \in {a, Always}
    THEN insn.target
    ELSE PcPlus(p, 1)
=============================================================================
