------------------------------- MODULE Runtime -------------------------------
(***************************************************************************)
(* GuestSystem, src/core/runtime.rs: the dispatcher that looks up the      *)
(* block at the pc, translates it when it is missing, and runs it, over    *)
(* the code cache of CodeCache.tla and the guest of GuestIsa.tla.          *)
(*                                                                         *)
(* The system is single threaded.  The steps of run_steps and              *)
(* translate_block_at are interleaved with nothing; what varies is what    *)
(* the embedding program does between two calls, what the guest program    *)
(* is, and whether the system calls of the emitter succeed.                *)
(***************************************************************************)
EXTENDS GuestIsa, CodeCache

CONSTANTS
  MaxInsns,          \* instructions per block, 64 in the code
  MaxSteps,          \* bound of the argument of run_steps
  HostCells,         \* cells the embedding program writes with write_guest
  HostPcs,           \* addresses it starts the guest at
  HostTranslatable,  \* addresses it passes to translate_block_at
  Programs           \* memories the guest may start with

VARIABLES
  mem,      \* guest memory
  pc,       \* cpu.pc, written when a block is left
  acc,      \* the guest register
  halted,   \* a public field that only the embedding program sets
  ctl,      \* where run_steps or translate_block_at is; "host" outside
  steps,    \* blocks run_steps has still to run; 0 in a direct translation
  builder,  \* the block being translated: its address and instructions so far
  code,     \* what each buffer does when called, written by jit_emit_block
  k         \* instructions the running block has executed

guestVars == <<mem, pc, acc, halted>>
dispatchVars == <<ctl, steps, builder, code, k>>
vars == <<guestVars, dispatchVars, cacheVars>>

(* Prologue, epilogue and a run of machine code for each instruction.      *)
CodeLen(im) == Len(im) + 1

ASSUME RuntimeAssumption ==
  /\ MaxInsns \in Nat \ {0}
  /\ MaxInsns <= PcMod
  /\ MaxSteps \in Nat
  /\ Pc = GuestPc
  /\ HostCells \subseteq Cell
  /\ HostPcs \subseteq GuestPc
  /\ HostTranslatable \subseteq GuestPc
  /\ Programs \subseteq [Cell -> Word]
  /\ \A n \in 1..MaxInsns : n + 1 \in CodeLens

Builder == [pc : GuestPc, insns : Seq(Insn)]

ASSUME BuilderAssumption == NoBlock \notin Builder

Init ==
  /\ CacheInit
  /\ mem \in Programs
  /\ pc = 0
  /\ acc \in Word
  /\ halted = FALSE
  /\ ctl = "host"
  /\ steps = 0
  /\ builder = NoBlock
  /\ code = [b \in Buffer |-> <<>>]
  /\ k = 0

-----------------------------------------------------------------------------
(* The embedding program between two calls.                                *)

WriteGuest ==
  /\ ctl = "host"
  /\ \E c \in HostCells, w \in Word : mem' = [mem EXCEPT ![c] = w]
  /\ UNCHANGED <<pc, acc, halted, dispatchVars, cacheVars>>

SetCpu ==
  /\ ctl = "host"
  /\ pc' \in HostPcs
  /\ halted' \in BOOLEAN
  /\ UNCHANGED <<mem, acc, dispatchVars, cacheVars>>

RunSteps ==
  /\ ctl = "host"
  /\ steps' \in 1..MaxSteps
  /\ ctl' = "loop"
  /\ UNCHANGED <<guestVars, builder, code, k, cacheVars>>

TranslateDirectly ==
  /\ ctl = "host"
  /\ \E p \in HostTranslatable : builder' = [pc |-> p, insns |-> <<>>]
  /\ ctl' = "translate"
  /\ UNCHANGED <<guestVars, steps, code, k, cacheVars>>

-----------------------------------------------------------------------------
(* run_steps: the head of the loop.                                        *)

(* Faulty: the loop is left in the middle with blocks still to run.        *)
LeaveEarly ==
  /\ ctl = "loop"
  /\ steps = 0 \/ halted
  /\ ctl' = "host"
  /\ UNCHANGED <<guestVars, steps, builder, code, k, cacheVars>>

Leave ==
  /\ ctl = "loop"
  /\ steps = 0 \/ halted
  /\ ctl' = "host"
  /\ steps' = 0
  /\ UNCHANGED <<guestVars, builder, code, k, cacheVars>>

Dispatch ==
  /\ ctl = "loop"
  /\ steps > 0 /\ ~halted
  /\ IF Cached(pc)
       THEN ctl' = "touch" /\ UNCHANGED builder
       ELSE ctl' = "translate" /\ builder' = [pc |-> pc, insns |-> <<>>]
  /\ UNCHANGED <<guestVars, steps, code, k, cacheVars>>

-----------------------------------------------------------------------------
(* translate_block_at                                                      *)

(* Faulty: terminators do not end the block.                               *)
CompleteAtCap(im) == Len(im) = MaxInsns

Complete(im) ==
  Len(im) > 0 /\ (Len(im) = MaxInsns \/ IsTerminator(im[Len(im)]))

(* Faulty: cursor_pc is not advanced.                                      *)
CursorStuck(b) == b.pc

cursor_pc(b) == PcPlus(b.pc, Len(b.insns))

TranslateInsn ==
  /\ ctl = "translate"
  /\ ~Complete(builder.insns)
  /\ builder' = [builder EXCEPT
                   !.insns = Append(@, Fetch(mem, cursor_pc(builder)))]
  /\ UNCHANGED <<guestVars, ctl, steps, code, k, cacheVars>>

(* emit_block: a new buffer is mapped and written, then insert() called.   *)
Emit ==
  /\ ctl = "translate"
  /\ Complete(builder.insns)
  /\ \E b \in Buffer :
       /\ BeginInsert(builder.pc, b, CodeLen(builder.insns))
       /\ code' = [code EXCEPT ![b] = builder.insns]
  /\ builder' = NoBlock
  /\ ctl' = "insert"
  /\ UNCHANGED <<guestVars, steps, k>>

(* mmap or mprotect fails, the buffer is unmapped again, and the program   *)
(* panics.                                                                 *)
EmitFails ==
  /\ ctl = "translate"
  /\ Complete(builder.insns)
  /\ builder' = NoBlock
  /\ ctl' = "panicked"
  /\ UNCHANGED <<guestVars, steps, code, k, cacheVars>>

(* What a step unmaps can be called no more.                               *)
CodeFreed ==
  code' = [b \in Buffer |-> IF b \in mapped' THEN code[b] ELSE <<>>]

InsertEvict ==
  /\ ctl = "insert"
  /\ Evict
  /\ CodeFreed
  /\ UNCHANGED <<guestVars, ctl, steps, builder, k>>

InsertCommit ==
  /\ ctl = "insert"
  /\ Commit
  /\ CodeFreed
  /\ ctl' = IF steps = 0 THEN "host" ELSE "touch"
  /\ UNCHANGED <<guestVars, steps, builder, k>>

-----------------------------------------------------------------------------
(* run_steps: the rest of the loop.                                        *)

(* touch(), then the second lookup, whose expect() panics on a miss.       *)
TouchBlock ==
  /\ ctl = "touch"
  /\ Touch(pc)
  /\ ctl' = IF Cached(pc) THEN "run" ELSE "panicked"
  /\ UNCHANGED <<guestVars, steps, builder, code, k>>

Running == code[blocks[pc].buf]

(* One instruction of the running block.  The last one leaves the block:   *)
(* cpu.pc is written and the dispatcher continues.                         *)
ExecuteInsn ==
  /\ ctl = "run"
  /\ LET insn == Running[k + 1]
     IN  /\ mem' = MemAfter(insn, mem, acc)
         /\ acc' = AccAfter(insn, mem, acc)
         /\ IF k + 1 < Len(Running)
              THEN /\ k' = k + 1
                   /\ UNCHANGED <<pc, ctl, steps>>
              ELSE /\ k' = 0
                   /\ pc' = PcAfter(insn, PcPlus(pc, k), acc)
                   /\ ctl' = "loop"
                   /\ steps' = steps - 1
  /\ UNCHANGED <<halted, builder, code, cacheVars>>

Panicked == ctl = "panicked" /\ UNCHANGED vars

System ==
  \/ Leave \/ Dispatch
  \/ TranslateInsn \/ Emit \/ EmitFails \/ InsertEvict \/ InsertCommit
  \/ TouchBlock \/ ExecuteInsn

Host == WriteGuest \/ SetCpu \/ RunSteps \/ TranslateDirectly

Next == Host \/ System \/ Panicked

(* A call of the embedding program runs to its end; the embedding program  *)
(* itself need not do anything.                                            *)
Spec == Init /\ [][Next]_vars /\ WF_vars(System)

-----------------------------------------------------------------------------
(* The word that instruction n (from 0) of the block at p comes from.      *)
CellOf(p, n) == PcPlus(p, n) % Size

(* What a step may not write if the guest is to see its own code: the      *)
(* words that a cached block was translated from.                          *)
SparesCode ==
  \A p \in DOMAIN blocks :
    \A n \in 1..Len(code[blocks[p].buf]) :
      mem'[CellOf(p, n - 1)] = mem[CellOf(p, n - 1)]

(* The system as long as nobody writes over translated code.               *)
CoherentSpec == Init /\ [][Next /\ SparesCode]_vars

(* Every variable has its type.                                            *)
RuntimeTypeOK ==
  /\ CacheTypeOK
  /\ mem \in [Cell -> Word]
  /\ pc \in GuestPc
  /\ acc \in Word
  /\ halted \in BOOLEAN
  /\ ctl \in {"host", "loop", "translate", "insert", "touch", "run", "panicked"}
  /\ steps \in Nat
  /\ builder \in Builder \cup {NoBlock}
  /\ code \in [Buffer -> Seq(Insn)]
  /\ k \in Nat

(* im is what the memory holds at p.                                       *)
IsImage(im, p) == \A n \in 1..Len(im) : im[n] = Fetch(mem, PcPlus(p, n - 1))

(* expect("translated") does not panic, and the code that runs is mapped   *)
(* and belongs to the block at the pc: neither eviction to make room for   *)
(* the block nor a second translation of it takes it away.                 *)
RunsMappedCode ==
  ctl \in {"touch", "run"} =>
    /\ Cached(pc)
    /\ blocks[pc].buf \in mapped
    /\ Complete(Running)

(* The guest cannot tell: where no write hits translated code, running     *)
(* blocks from the cache is the guest machine executing its memory, one    *)
(* instruction at a time.  Inside a block cpu.pc is behind, at the start   *)
(* of the block.                                                           *)
guestPc == IF ctl = "run" THEN PcPlus(pc, k) ELSE pc
Machine == INSTANCE GuestMachine WITH pc <- guestPc, running <- ctl # "host"
ImplementsMachine == Machine!MachineSpec

(* run_steps and translate_block_at return or panic: blocks are finite and *)
(* the loop is bounded.                                                    *)
CallsReturn == (ctl # "host") ~> (ctl \in {"host", "panicked"})

(* When run_steps is the only one that translates, a block is inserted     *)
(* only while its address is not cached, and then the accounts of the      *)
(* cache are exact: used_bytes is the sum of the cached lengths and lru    *)
(* holds every cached address once.                                        *)
ExactAccounts ==
  /\ used_bytes = TotalBytes
  /\ \A m, n \in 1..Len(lru) : lru[m] = lru[n] => m = n
  /\ {lru[n] : n \in 1..Len(lru)} = DOMAIN blocks

(* What architecture_fixed.rs says of guest writes into translated code:   *)
(* the block is invalidated and translated again before it is next         *)
(* executed.                                                               *)
ExecutesCurrentCode == ctl = "touch" => IsImage(Running, pc)

-----------------------------------------------------------------------------
(* The inductive invariants behind the properties above.                   *)

(* Where the calls are and what they hold: the block being translated,     *)
(* inserted or run by run_steps is the one at the pc.                      *)
ControlInv ==
  /\ ctl = "host" => steps = 0
  /\ ctl \in {"touch", "run"} => steps > 0 /\ Cached(pc)
  /\ ctl \in {"translate", "insert", "touch", "run"} /\ steps > 0 => ~halted
  /\ ctl = "translate" => builder # NoBlock /\ (steps > 0 => builder.pc = pc)
  /\ ctl = "insert" <=> incoming # NoBlock
  /\ ctl = "insert" /\ steps > 0 => incoming.pc = pc
  /\ IF ctl = "run" THEN k < Len(Running) ELSE k = 0

(* A block ends at its first terminator.                                   *)
StraightLine(im) ==
  /\ Len(im) <= MaxInsns
  /\ \A n \in 1..(Len(im) - 1) : ~IsTerminator(im[n])

IsBlock(im) == StraightLine(im) /\ Complete(im)

BlocksInv ==
  /\ \A p \in DOMAIN blocks : IsBlock(code[blocks[p].buf])
  /\ ctl = "insert" => IsBlock(code[incoming.buf])
  /\ ctl = "translate" => StraightLine(builder.insns)

(* With every step of Next.                                                *)
RuntimeInv ==
  RuntimeTypeOK /\ OwnedOnce /\ EvictableBlocks /\ ControlInv /\ BlocksInv

(* With the steps that spare the code, what is cached, being inserted or   *)
(* being translated is what memory holds.                                  *)
CurrentInv ==
  /\ \A p \in DOMAIN blocks : IsImage(code[blocks[p].buf], p)
  /\ ctl = "insert" => IsImage(code[incoming.buf], incoming.pc)
  /\ ctl = "translate" => IsImage(builder.insns, builder.pc)
=============================================================================
