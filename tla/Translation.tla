----------------------------- MODULE Translation -----------------------------
(***************************************************************************)
(* The first half of translate_block_at, src/core/runtime.rs: words are    *)
(* decoded and lowered until one ends the block or there are enough, and a *)
(* block without an exit gets one.  The ops are run as they are appended,  *)
(* next to a guest that executes the same words one at a time.             *)
(***************************************************************************)
EXTENDS PowerPc, AArch64

CONSTANTS
  Words,    \* for each frontend, the words the memory may hold
  Starts,   \* and the states in which the block may be entered
  MaxInsns  \* 64

frontends == {"ppc", "a64"}

ASSUME TranslationAssumption ==
  /\ DOMAIN Words = frontends
  /\ Starts \in [frontends -> SUBSET Machine]
  /\ \A f \in frontends : \A s \in Starts[f] : s.status = "run"
  /\ MaxInsns \in Nat \ {0}

(* The field of a number of a register, or of a bit of CR, is one of its   *)
(* number of bits, in the instructions that have it.                       *)
PpcFields(w) ==
  LET name == Mnemonic(w)
  IN  /\ w.imm \in 0..(2 ^ HalfBits - 1)
      /\ w.li \in 0..(2 ^ LiBits - 1)
      /\ name \notin {"b", "bc", "bclr", "crand", "unknown"} => w.rd \in Indices
      /\ name \notin {"b", "bc", "bclr", "crand", "unknown", "mfspr", "mtspr"} =>
           w.ra \in Indices
      /\ name \in {"add", "and", "or", "xor", "subf", "ps_add"} => w.rb \in Indices
      /\ name = "rlwinm" => {w.rb, w.mb, w.me} \subseteq 0..(NarrowBits - 1)
      /\ name = "crand" => {w.rd, w.ra, w.rb} \subseteq 0..(CrBits - 1)
      /\ name = "bc" => w.ra \in 0..(CrBits - 1)

A64Fields(w) ==
  /\ {w.rd, w.rn} \subseteq Indices
  /\ w.hw \in 0..3
  /\ w.imm \in 0..(2 ^ WideBits - 1)
  /\ w.off \in Int

ASSUME FieldAssumption ==
  /\ \A w \in Words["ppc"] : PpcFields(w)
  /\ \A w \in Words["a64"] : A64Fields(w)
  /\ LinkReg \in Indices \ {ZeroReg}

ASSUME WidthAssumption ==
  /\ HalfBits \in Nat \ 0..1
  /\ NarrowBits = 2 * HalfBits
  /\ WideBits = 2 * NarrowBits
  /\ LiBits \in HalfBits..NarrowBits
  /\ ByteBits \in Nat \ {0}
  /\ WordBytes \in Nat \ {0}
  /\ ByteBits * WordBytes = NarrowBits
  /\ CrBits \in 4..WideBits
  /\ CrBits % 4 = 0
  /\ MemSize \in Nat
  /\ InsnLen \in Nat \ {0}

(* An instruction needs at most nine registers: rlwinm. reads one, makes   *)
(* four and four more for the field of CR.                                 *)
InsnRegs == 9

ASSUME VRegAssumption ==
  \A n, k \in 0..(InsnRegs * MaxInsns - 1) :
    VRegAt(n) \in VReg /\ (VRegAt(n) = VRegAt(k) => n = k)

ASSUME LiteralAssumption == Word \subseteq Imm

Sprs == {SprReg(spr_field(w)) : w \in {x \in Words["ppc"] : Mnemonic(x) \in {"mfspr", "mtspr"}}}

(* The kinds of the ops that the frontends append.                         *)
OpKinds ==
  [name : aluNames, wide : BOOLEAN]
    \cup [name : {"load", "store"}, bytes : {1, WordBytes}, big : {TRUE}]
    \cup [name : {"get"},
          reg : CachedReg \cup {Named("crbit", n) : n \in 0..(CrBits - 1)} \cup Sprs]
    \cup [name : {"set"},
          reg : GuestReg \cup {Named("crfield", n) : n \in 0..((CrBits - 1) \div 4)}
                  \cup {Named("unimplemented", 0)} \cup Sprs]
    \cup [name : {"setflags"}, wide : {FALSE}]
    \cup [name : {"readflag"}, flag : {"zero", "negative"}]
    \cup [name : {"branch"}, taken : Word, fall : Word]
    \cup [name : {"vec", "indirect", "return"}]

ASSUME KindAssumption == OpKinds \subseteq Kind

(* The register of AArch64 that is zero holds zero when a block is         *)
(* entered.  Of PowerPC nothing is assumed: constants folded in 64 bits    *)
(* leave bits above 32 in its registers.                                   *)
ASSUME StartAssumption ==
  /\ ZeroReg \in Indices
  /\ \A s \in Starts["a64"] : s.reg[Gpr(ZeroReg)] = 0

VARIABLES
  frontend,
  b,       \* the builder
  cursor,  \* cursor_pc
  left,    \* words that the loop may still translate
  phase,   \* "insn", "end", then "done"
  m,       \* what the ops so far do
  ref      \* what the words so far do

vars == <<frontend, b, cursor, left, phase, m, ref>>

lower_to_ir(w) ==
  IF frontend = "ppc" THEN PpcLower(b, w, cursor) ELSE A64Lower(b, w, cursor)

is_block_terminator(w) ==
  IF frontend = "ppc" THEN PpcTerminator(w) ELSE A64Terminator(w)

Effect(w) == IF frontend = "ppc" THEN PpcEffect(w, ref) ELSE A64Effect(w, ref)

Init ==
  /\ frontend \in frontends
  /\ m \in Starts[frontend]
  /\ ref = m
  /\ b = new_block
  /\ cursor = m.reg[pc]
  /\ left = MaxInsns
  /\ phase = "insn"

(* The ops from position n on are run.                                     *)
Appended == m' = RunFrom(b'.ops, Len(b.ops) + 1, m)

TranslateInsn ==
  /\ phase = "insn"
  /\ \E w \in Words[frontend] :
       /\ b' = lower_to_ir(w)
       /\ ref' = IF ref.status = "run" THEN Effect(w) ELSE ref
       /\ phase' = IF is_block_terminator(w) \/ left = 1 THEN "end" ELSE "insn"
  /\ Appended
  /\ cursor' = next_pc(cursor)
  /\ left' = left - 1
  /\ UNCHANGED frontend

EndBlock ==
  /\ phase = "end"
  /\ b' = IF b.ops # <<>> /\ is_control_flow(Last(b.ops)) THEN b ELSE ExitTo(b, cursor)
  /\ Appended
  /\ phase' = "done"
  /\ UNCHANGED <<frontend, cursor, left, ref>>

Done == phase = "done" /\ UNCHANGED vars

Next == TranslateInsn \/ EndBlock \/ Done

Spec == Init /\ [][Next]_vars

-----------------------------------------------------------------------------
(* The value of a guest register after the ops so far.                     *)
View(r) == IF b.at[r] = NoReg THEN m.reg[r] ELSE m.env[b.at[r]]

(* Every variable has its type.                                            *)
TranslationTypeOK ==
  /\ frontend \in frontends
  /\ b.ops \in Seq(Op)
  /\ b.at \in [CachedReg -> VReg \cup {NoReg}]
  /\ cursor \in Word
  /\ left \in 0..MaxInsns
  /\ phase \in {"insn", "end", "done"}
  /\ m \in Machine
  /\ ref \in Machine

(* After every instruction, what the builder has for a guest register is   *)
(* its value, be it in a vreg or in the CPU state; CR, which intrinsics    *)
(* change behind the builder's back, included.                             *)
RegistersTracked ==
  /\ m.status = "fault" <=> ref.status = "fault"
  /\ m.mem = ref.mem
  /\ ref.status = "run" => \A r \in CachedReg : View(r) = ref.reg[r]

(* Running the block is executing its words: the same registers, memory    *)
(* and next pc, or the same stores before an access that faults.           *)
BlockIsSequence == phase = "done" => GuestState(m) = GuestState(ref)

(* What the passes and the allocator take for granted of a block: results  *)
(* have one definition, before their uses, and only ops that may be        *)
(* removed when unused have one.                                           *)
LoweredWellFormed == WellFormed(b.ops)

(* A block has one way out, at its end, and the flush is before it.        *)
ExitIsLast ==
  /\ \A n \in 1..(Len(b.ops) - 1) : ~is_control_flow(b.ops[n])
  /\ phase = "done" => is_control_flow(Last(b.ops))
  /\ phase = "done" =>
       \A r \in CachedReg : b.at[r] # NoReg =>
         \E n \in 1..Len(b.ops) : b.ops[n].kind = Set(r) /\ b.ops[n].args = <<b.at[r]>>
=============================================================================
