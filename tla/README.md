# VasJIT in TLA+

VasJIT translates PowerPC (Wii) and AArch64 (Switch) guest code to x86-64 and
runs it. This directory holds TLA+ models of it, checked by TLC on small
instances and, for the results named below, proved with TLAPS for every value
of the constants. Source paths are relative to the root of the repository.

- [The system](#the-system)
- [What can go wrong](#what-can-go-wrong)
- [Modules](#modules)
- [Runs](#runs)
- [Proofs](#proofs)
- [Disagreements with the design document](#disagreements-with-the-design-document)
- [Observations](#observations), [Not modelled](#not-modelled), [Next](#next)

## The system

| Component | Source | State | Operations |
|---|---|---|---|
| Dispatcher `GuestSystem` | `src/core/runtime.rs` | CPU state, cache, memory, `halted` | `run_steps`, `translate_block_at`, `write_guest` |
| Code cache | `src/core/cache.rs` | `blocks`, `lru`, `used_bytes` | `lookup`, `touch`, `insert` |
| Code buffers | `src/core/jit_ffi.rs`, `jit/emit.cpp` | mapped pages and their protection | `jit_emit_block`, `jit_free_code`, `jit_patch_chain` |
| Guest memory | `src/core/memory.rs` | one mapping of 4 GiB, or less | `write_bytes`, `fetch_guest_bytes`, loads and stores of emitted code |
| Frontends | `src/frontends/` | none | decode a word, lower it to IR |
| IR and `IrBuilder` | `src/core/ir.rs` | the block, which vreg caches which guest register | `read_*`, `write_*`, `emit_*`, `flush_guest_state` |
| Passes | `src/core/passes.rs` | the block, known constants, used vregs | `const_fold`, `dead_code_elim` |
| Register allocator | `src/core/regalloc.rs` | intervals, active list, free stack, map | `linear_scan` |
| Emitter | `jit/emit.cpp` | host registers, spill area, CPU state | one code sequence per IR op |
| Design | `architecture_fixed.rs` | its own IR, passes and allocator | `constant_fold`, `redundant_load_elimination`, `dead_flag_elimination`, `linear_scan` |

`run_steps` looks the pc up in the cache. On a miss `translate_block_at` decodes
up to 64 instructions, lowers them with `IrBuilder`, runs the passes, allocates
registers, has `jit_emit_block` write the code into a fresh mapping and inserts
the result into the cache, which may evict, and thereby unmap, other blocks.
The block is then touched, looked up a second time, and called with a pointer
to the CPU state; it returns the next pc. The components hand each other values
and keep no reference to one another's state, with three exceptions, which is
where the models concentrate:

- a cached block owns a mapped buffer and unmaps it when it is dropped, so
  every removal from the cache frees code;
- the emitted code writes the guest memory that blocks are translated from;
- the emitter relies on places the allocator chose, among them registers the
  emitter also uses for itself.

`architecture_fixed.rs` is not built. It is the design the rest was made from,
and parts of it are complete code that differs from what was built: other
passes over other ops, and an allocator that may spill the current interval.
Its frontends are `todo!()`.

## What can go wrong

Everything runs on one thread. There is no lock, no message, no timer and
nothing is persisted; a call from the embedding program runs to its end. The
hard behaviours are of another kind, and `PROJECT.json` lists each at its line:

| Behaviour | Where | What must hold |
|---|---|---|
| Long sequences of expirations and evictions permute the active list and the free stack | `linear_scan` | a register has one owner; values live at one op never share a place |
| The order in which registers are handed out | `linear_scan`, `emit.cpp` | the emitter's scratch registers go last, and only under pressure |
| A value waits in a register or slot while other ops park, spill and overwrite | `emit.cpp` | what an op reads is what the IR names |
| Guest registers live in virtual ones between their first use and the exit | `ir.rs`, frontends | running a block is executing its instructions |
| Constants move from their definition to uses far behind it, and the definition goes | `passes.rs` | the block has the same effects; no op is lost or left behind |
| Insertion of an address that is already cached, eviction through a duplicate entry | `cache.rs` | no buffer is leaked, freed twice or freed while a block points to it |
| Eviction between the insertion of a block and the second lookup | `runtime.rs` | the `expect` never fails; the code that runs is mapped |
| A failed system call in the middle of a translation | `runtime.rs`, `emit.cpp` | the cache is as it was (the panic comes before the insertion: there is nothing to check) |
| Every evicted value takes a slot of the spill area for good | `regalloc.rs`, `emit.cpp` | nothing is written behind the area |
| Writes to guest words that have been translated | `runtime.rs`, `emit.cpp` | as long as there is none, the JIT is the guest machine |
| Loads are dropped for what an earlier load or store left, and stores overlap | the design's passes | the block has the same effects; what is read is defined |
| Nested loops over blocks, instructions, evictions, intervals | everywhere | every call returns |

## Modules

```
                 ┌─ LinearScan ── Emitter
Ir ──────────────┼─ Passes ───────────────────── Arith
                 ├─ IrBuilder ── IrMachine ─┬─ PowerPc ─┐
                 │   Arith       GuestBytes └─ AArch64 ─┴─ Translation
                 └─ DesignPasses ── DesignMachine ── Design
                     Arith           GuestBytes

GuestIsa ─┬─ GuestMachine   the abstract specification, implemented by
CodeCache ┴─ Runtime ── RuntimeHistory
```

Each `MC*` module gives the constants of one of these their values, and each
`*Proofs` module holds theorems: `AllocatorProofs` (of LinearScan and Emitter),
`PassesProofs`, `RuntimeProofs` (of CodeCache, Runtime and RuntimeHistory),
`DesignProofs`, and of Translation `TranslationProofs` (what a lowered block is) and
`BlockProofs` (what it does). `SequenceFacts` has lemmas on sequences, and on the least
element of a set of numbers; `ArithFacts` on words, their bits and bytes, and
truncation, which `TranslationProofs` and `DesignProofs` share.
Definitions described as "Faulty" in a comment are used by no
specification: each is the form a bug would give to the definition next to it,
and replacing the one by the other must make a property fail.

**Ir** (`src/core/ir.rs`). An op is a kind, a destination vreg or none, and a
sequence of operands, each a vreg or an immediate. What kinds there are is a
constant: each module tells apart the kinds that its code treats differently.
`WellFormed` is what the passes and the allocator take for granted of a block;
`Passes` assumes it, and `Translation` shows it of what the frontends produce.

**IrBuilder**, **IrMachine** (`src/core/ir.rs`, `jit/emit.cpp`). A builder is a
record of the ops, the next vreg and the vreg that holds each guest register;
every method a frontend calls is a function of it: `read_reg` and `write_reg`
for the twelve accessors, `emit_rc0_from_result`, `emit_set_cr_field`, which
drops the cached CR, `flush_guest_state` and the three exits. `Exec` is what the
emitted code of an op does to the CPU state, guest memory and vregs, registers
apart: the width of the op, the byte order and the zero-extension of an address,
the fault behind the map, the CR field, zero for an intrinsic it does not know.

**PowerPc**, **AArch64** (`src/frontends/`). A word is a record of its fields.
Each has the decoding of a word into a mnemonic, the terminators, the lowering of
each mnemonic over an `IrBuilder`, and, beside it, `PpcEffect` and `A64Effect`:
what the instruction does to the guest at once, as the frontend means it.

**Translation** (`src/core/runtime.rs`). `TranslateInsn` is one turn of the loop of
`translate_block_at`, which takes any word; `EndBlock` adds the exit if there is
none. The ops appended are run at once on `m`, and the words on `ref`, from the
same state. An op that faults stops both.

**LinearScan** (`src/core/regalloc.rs`). One action per iteration of every loop
of `linear_scan`: `ScanOp` (intervals), `CollectIntervals` (the sort),
`NextInterval`, `Expire` and `Retain` (the closure of `active.retain`),
`PlaceInFree`, `PlaceBySpilling`, `Finish`. The sort is by start and its input
comes from a `HashMap`, so among intervals of equal start any may be first.
Positions in `active` and `free` are kept, because the order in which registers
return to the stack decides which is handed out next. The branch for an empty
pool has no action: in the code the pool is a non-empty constant, and a state
that needed the branch would deadlock the model.

**Emitter** (`jit/emit.cpp`), over the finished allocation of LinearScan. The
state `host` maps registers, spill slots and the two parking slots to what they
hold: a vreg's value, an immediate or `Junk`. The ops of a block run in order,
and each action is the code sequence of one kind of op: where operands are
materialised, what is parked and unparked around them, which registers are
overwritten, where the result is committed. `seen` records the values each op
read. What an instruction computes is not modelled: an op that read the operands
the IR names has the right result, any other has `Junk`. Encoding, widths, byte
order and flags are left out.

**Passes** (`src/core/passes.rs`) with **Arith**. `FoldOp` visits one op:
substitution, fold, and the replacement by `Or value, 0`. `MarkOp` is one op of
the backward sweep of `dead_code_elim`; `Retain` is the second sweep. The block
then runs beside its optimised form, op by op (`RunAlu`, `RunRead`, `RunEffect`),
with the arithmetic of the emitted code (`Run`), while the pass used its own
(`Fold`). Loads and state reads return anything, but the same thing to both as
long as both have had the same effects and read from the same place. `Arith`
gives the two arithmetics on words of `WideBits` and narrow ops of `NarrowBits`
bits; the code has 64 and 32.

**DesignPasses**, **DesignMachine**, **Design** (`architecture_fixed.rs`).
`constant_fold` op by op with the widths and masks of `fold_binary`;
`redundant_load_elimination` with its cached loads and stores, the ranges of
literal addresses that a store invalidates, the ops that forget everything, and
the substitution as the code does it; `dead_flag_elimination`. `designWidth` are the
widths of `enum Width` but `W128`; `SingleAssignment` says what an op has and that a
register is defined once. `DesignMachine` runs
a block on memory of bytes, with a trace of calls and intrinsics; there is no
emitter for the design, so the meaning of its ops is external. `Design` has the
passes as one step, then one interval per step: `expire_old` with its
`swap_remove`, and a free register, an eviction, or the spill of the current
interval.

**CodeCache** (`src/core/cache.rs`, ownership from `jit_ffi.rs`). `Touch`,
`BeginInsert` (the caller's fresh block), `Evict` (one iteration of the loop of
`insert`) and `Commit` (the rest). `mapped` is the set of buffers that
`jit_emit_block` has mapped and `jit_free_code` has not unmapped. The client of
`CacheSpec` may do all that the public methods allow, including what the
dispatcher never does.

**GuestIsa**, **GuestMachine**, **Runtime** (`src/core/runtime.rs`). `GuestIsa`
is the guest as far as translation and caching can tell: words that decode to
register ops, loads, stores, branches or nothing, and a pc wider than the
memory, so that the same words have several addresses. `GuestMachine` is the
abstract specification: a machine that executes one instruction of its memory
at a time, as the memory stands at that moment. `Runtime` is the JIT: its
actions are the statements of `run_steps` and `translate_block_at` (`Dispatch`,
`TranslateInsn`, `Emit`, `EmitFails`, `InsertEvict`, `InsertCommit`,
`TouchBlock`, `ExecuteInsn`, `Leave`) and what the embedding program does
between calls (`WriteGuest`, `SetCpu`, `RunSteps`, `TranslateDirectly`).
Translation is abstracted to the instructions it decodes; that the code of a
block does what its instructions say is the subject of `Translation`, `Passes`,
`LinearScan` and `Emitter`.
`RuntimeHistory` adds what has run, in the order of the last run of each address.

## Runs

Every passing run checks deadlock, except `coherent`.

| Run | Question | Instance |
|---|---|---|
| `scan` | Is the allocation sound and no more wasteful than need be? Does it end? | every SSA block of five ops with up to two operands, two registers |
| `emit_spill` | Do parking, spilling and reuse keep values in place, and the spill area intact? | blocks of five ops, the last a load, a branch or a return, up to four values live; three registers of which two are scratch, one slot |
| `emit_clobber` | Do all blocks run right? (violated) | blocks of four ops with any ending, six registers of which three are scratch |
| `passes` | Do the passes preserve effects at full width, and remove exactly what is dead? | any arithmetic op or state read; an addition, right shift or load; a subtraction, load or state write; a store or branch. Two literals, words of four bits |
| `passes_narrow` | Do they at the narrow width? (violated) | the same, narrow ops of two bits |
| `lowering` | Is running a lowered block the same as executing its instructions? Is it what the passes expect? | blocks of up to three of 44 PowerPC and 14 AArch64 words, from one and two states |
| `cache` | Are buffers owned once, accounts safe, the limit kept, for any client? | three addresses, four buffers, lengths 1 to 3, limit 4 |
| `coherent` | Is the JIT the guest machine while translated words are not written? Is the code that runs mapped? | three words, six addresses, blocks of two instructions, four buffers, limit 6, the first and the last word writable by the embedding program |
| `stale` | Does it execute current code when they are? (violated) | the same, the last word writable, over translated words too |
| `history` | Are the accounts exact, is the least recently run block evicted, does every call return? | as `coherent`, three buffers, limit 5, no direct translation |
| `design` | Do the design's passes preserve a block, does its allocator keep values apart and spill what ends last? | blocks of five to seven ops, two registers, words of four bits |
| `design_loads` | Is everything defined that a block reads after them? (violated) | the same |

Why the bounds suffice to meet the interesting cases:

- *scan*: with two registers and five ops, three values are live together, one
  is evicted, another interval expires out of the middle of `active` and a later
  value reuses the register; two evictions in one block occur. Operands number
  up to two; a third would only keep more alive.
- *emit*: the pool of three is `RAX`, `RCX` and `R8`, so two of three places are
  scratch registers and the shift in `RCX` by an amount in `RAX`, in a slot or in
  `R8` all occur. The code's pool has thirteen. Immediates are of two kinds,
  those that fit in 32 bits and those that do not. `SpillSlots` is 1, for the 128 of
  the code: blocks that name four values need it, blocks that name five are beyond
  the premise of `SpillAreaIsEnough`. The longer blocks are those of `emit_spill`:
  two values from the CPU state, a third or a load, any op that does not leave the
  block. `emit_clobber` needs four ops, two of them of any kind, and registers above
  the scratch ones.
- *passes*: a constant can be folded from a folded constant and used by a load, a
  write of state, a store and another fold; a chain of three dead ops occurs.
  Two-bit narrow ops in four-bit words have carries, sign bits and shift counts
  that differ, as 32 bits in 64 do.
- *lowering*: the words have every mnemonic at least once, with record bits, with `ra`
  zero, with operands that coincide, with targets and displacements that wrap; a third
  instruction meets what a first wrote and a second read. The CPU has 8 bits for 64 and
  4 for 32, a literal of an instruction 2, a byte 2, CR two fields, the displacement of
  `b` 3, so sign extension, carries out of 32 bits and the masks of `rlwinm` that wrap
  all occur. PowerPC registers start with bits above the 32 of the guest, which the code
  can leave in them. Four registers of a kind have room for the zero register, the link
  register and two others. The map has twelve bytes and addresses sixteen, so some
  accesses fault. `MaxInsns` 3 ends blocks by the limit.
- *design*: three kinds of blocks, one per pass and one of pressure. Two-bit
  bytes and sixteen addresses give stores that overlap a cached load wholly,
  partly or not at all, and one that wraps. Ops of two and four bits mix. Two
  registers and up to six values spill both the current and active intervals.
- *cache*: limit 4 holds up to four small blocks or one large one; a block of 3
  evicts several; `UsedBound` stops the repeated insertion of one address, which
  in the code grows `used_bytes` without limit, after it has exceeded `MaxBytes`.
- *coherent* and the others: `MaxInsns` 2 has blocks ended by a terminator and by
  the limit, `Size` 3 has blocks that wrap, `PcMod` 6 gives every word two
  addresses, so the same words are cached twice; the cache holds two or three
  blocks and evicts. `MaxSteps` bounds the argument of `run_steps`, `UsedBound`
  direct translations of a cached address, and `Buffer` how much is mapped at
  once.

`SYMMETRY` is used over buffers in `coherent`, which checks no liveness. It sets
`CHECK_DEADLOCK FALSE`: `CoherentSpec` has no step where the next instruction would
write a translated word, and the behaviour ends.

**Fairness.** `LinearScan` and `CodeCache` assume that a function which can take
its next step does (`WF_vars(Next)`, `WF(Evict \/ Commit)`), and `Runtime` that a
call of the embedding program goes on (`WF_vars(System)`): the code is sequential
and calls nothing that blocks. Nothing is assumed of the embedding program, which
may never call again. The modules checked for safety only (`Emitter`, `Passes`,
`Translation`, `Design`) state none.

**Properties and the hazard each is for.** Beyond one type invariant per module:

- `LiveValuesApart`, `SharedRegistersDisjoint`, `PoolPartition`,
  `OnlyOpenIntervalsMove`: no sequence of expirations and evictions gives two live
  values one place, loses a register or frees one twice.
- `SpillOnlyUnderPressure`, `ScarceRegistersLast`, `SpillBudget`: no stale entry
  causes a spill, the pool's bottom is the last resort, and the spill area grows
  by one slot per evicted value. `SpillBudget` does not compare it with its length.
- `SpillAreaIsEnough` does: the code of a block that names no more values than the
  pool has registers and the area slots writes nothing behind the area. The condition
  is the property's, not the code's: the 1024 bytes of `CpuState::spill` hold 128
  slots, `regalloc.rs:38` never compares `next_spill` with them, and the next slots
  would lie over `cr`, `lr` and `ctr`. A block of 64 instructions can name more
  than 128 + 13 values. That one cannot evict more than 128 is a count by hand, which
  no run or proof contains: what is evicted is the value of a guest register that a
  later instruction or the flush reads, or the one condition of an exit. An
  instruction reads or leaves three such values at most, the flush reads 67, and each
  is left once and read once: there are (3 × 64 + 67) / 2 at most, or 129. Of the 13
  in registers at the last eviction at least four are among them, since the
  temporaries of one instruction are nine at most. Other frontends, or a longer
  block, would have to be counted again.
- `ClobberFreeIsRight`, `InPlace`: the emitter destroys nothing but the registers
  listed in `Clobbered`, for each kind of op, and restores all it parks.
- `WideIsPreserved`, `ExactlyDeadRemoved`: see `passes` above. The second says one
  backward sweep is enough, and that folding leaves no code behind. `PassInv` is the
  invariant of their proof, checked before it was proved.
- `OwnedOnce`, `EvictableBlocks`, `NeverUnderCounted`, `WithinCapacity`,
  `EvictsFromFront`, `InsertReturns`: the cache under any client.
- `RegistersTracked`: after each instruction, what the builder has for a guest
  register, in a vreg or left in the CPU state, is its value; a register read again
  after it was written, an update form whose two registers are one, or a write to the
  AArch64 zero register could break it. `BlockIsSequence`: at the end, memory,
  registers and pc are those of the instructions, and a block that faults has made
  the stores before the fault and no other. `ExitIsLast`: there is one exit, behind
  the flush of every cached register. `LoweredWellFormed`: see `Ir`. All of these are
  about the ops as they are lowered, before the passes, and relative to what the
  frontend means by an instruction.
- `PassesPreserve`, `LiveApart`, `FarthestEndIsSpilled`: the design. The second
  includes that no register of the pool is lost or held twice, in an allocator
  that sorts the list it removes from. The first has three premises: a register is
  defined once, as `new_vreg` gives (true of every block of the run), and two that
  the design does not meet by itself, described under [Observations](#observations)
  (`ShiftsFit`) and [Disagreements](#disagreements-with-the-design-document)
  (`UsesAreDefined`).
- `RuntimeInv`, `CurrentInv`, `RunsMappedCode`, `ImplementsMachine`,
  `ExactAccounts`, `EvictsLeastRecentlyRun`, `CallsReturn`: the system.

## Proofs

All assumptions are the named `ASSUME`s of the modules: the pool is a non-empty
sequence of distinct registers, the immediates are not vregs, memory is not
empty, a block is not longer than the address space. They hold of the code's
constants, and TLC evaluates them on every run.

**The allocator** (`AllocatorProofs`). `IInv` is inductive: the types; the
interval tables enclose every mention scanned so far (`ScanInv`); intervals are
visited in order of their start (`OrderInv`); what the retain sweep has passed is
still open (`SweepInv`); and the ownership of registers. The order is what makes
it work: an interval that has expired ended before the start of the current one,
hence before that of every later one, so its register may be reused for ever.
`TypeCorrect`, `PoolNeverCorrupted`, `SharingIsDisjoint`, `AllocationSound` and the
action property `PlacesAreStable` follow. A second invariant adds that at the time
of placement every active interval covers the start of the current one, so that
the active list is no longer than the pressure at that op; `SpillsOnlyUnderPressure`
and `ScratchIsLastResort` follow by counting. `SpillAreaIsBounded` counts the
values placed: when no register is free, the active intervals alone are as many
as the pool, and each further placement takes one slot at most.

**The emitter** (`AllocatorProofs`). `EmitInv` says that, in a block whose clobbered
registers hold no live value, every value still to be read is in its place and
every op that has run read what the IR names. For each kind of op a lemma
(`ByScratchComputes`, `ByClComputes`, `FmaComputes`, ...) says that the sequence
reads its operands, leaves the result in the place of the destination and
changes nothing but the destination, the parking slots and what `Clobbered` names.
`ClobberFreeRunsRight` and `ValuesStayInPlace` follow; `LowPressureRunsRight`
combines them with `ScratchIsLastResort`, across the two modules: in every block
with four registers to spare the code reads what the IR names at every op.
`PlacesInv` says that the allocator hands out nothing but registers of its pool and
whole slots below `next_spill`; `ContainedInv` adds that the code of every block,
clobbered or not, writes no other place but what it names for itself. With
`SpillBudget`, which bounds `next_spill` by the values a block names,
`CodeStaysInSpillArea` follows: a block with too few values for more slots than there
are writes none of the fields behind. `EmitTypeCorrect` is the types alone; what an op
has read may be `Junk` there.

**The passes** (`PassesProofs`). `PassInv` has, besides the types, three parts.
`FoldInv`: each op that the fold has passed is the constant that `known` records for its
destination, or the same op with known operands substituted. `MarkInv`: `used` is
exactly the set of vregs that the kept ops swept so far read. `RunInv`: when the block
runs, a known vreg has the folded value, and the two environments agree on the
destination of every kept op that has run. SSA makes it work: a vreg is defined once and
before its uses, so neither what is known nor what is marked is ever withdrawn.
`FullWidthPreserved` and `DeadCodeIsExact` follow, for blocks of any length that are
well formed. The one fact about numbers is `ArithmeticAssumption`: at full width the
fold computes what the emitted code computes, and `Or x, 0` is `x`. TLC evaluates it on
words of four bits with the definitions of `Arith`; the narrow width, where it does not
hold, is the subject of `passes_narrow`.

**The cache** (`RuntimeProofs`). `CacheInv`, the types with ownership and
reachability by eviction, is inductive for an arbitrary client:
`CacheTypeCorrect`, `BuffersOwnedOnce`, `BlocksStayEvictable`. `AccountsInv` adds
that `used_bytes` covers the bytes that are cached and, during an insertion, those
that the block to be inserted will take. The bytes of a cache are the cardinality
of a set, one element for each byte of each block, so that an eviction takes away
a set whose size is that block's length, and no sum needs induction:
`AccountsNeverShort`, `CacheFits`, and the action property `EvictionOrder`.

**The system** (`RuntimeProofs`). `RuntimeInv` adds to `CacheInv` where control is and
that every block is a straight line ended by its first terminator or by the limit
(`RuntimeInvHolds`), for writes of any kind. `RunsOnlyMappedCode` follows. For the steps
that spare translated words, `CurrentInv` (what is cached, inserted or being translated
is what memory holds) is inductive relative to `RuntimeInv` (`ImagesStayCurrent`), and
`JitImplementsMachine` is the refinement: `CoherentSpec` implements `GuestMachine` with
the pc mapped to the instruction that the running block has reached.

If only `run_steps` translates (`HostTranslatable = {}`, a hypothesis of these two
theorems: a caller that translates a cached address directly breaks both), the
accounts are exact, and `lru` is the order of last runs. `ExactInv`: an address is
translated only when it is not cached, so that `insert` never replaces and `lru`
has no duplicates (`AccountsAreExact`). `OrderInv`: of two cached addresses, the one
earlier in `lru` is the one earlier in `ranBefore`, except that the block about to be
touched may be anywhere (`LeastRecentlyRunGoesFirst`).

**Lowering** (`TranslationProofs`). Of a builder, `Built(b, n)` says what every method
keeps: no more than `n` vregs are handed out, each op has the operands and result of its
kind, uses are behind definitions, a cached register is in a defined vreg. `Open` adds
that no op leaves the block, `Ended` that the last one does and that the flush is before
it. One lemma per builder method, one per mnemonic over those, and one per frontend
(`PpcLowered`, `A64Lowered`): lowering takes an open builder to an open one, or to an
ended one when the word is a terminator, with `InsnRegs` further vregs at most.
`BuilderInv` then gives `LoweringIsWellFormed`, which is what `Passes`, `LinearScan` and
`Emitter` assume of a block, and `BlockEndsWithItsExit`, for all words, registers and
block lengths. The assumptions are about the fields of words (`FieldAssumption`), the
numbers of vregs (`VRegAssumption`: 9 for each instruction), the kinds of ops there are
(`KindAssumption`) and widths (`WidthAssumption`: 32 is twice 16, 64 twice 32, the
displacement of `b` between 16 and 32, a word a whole number of bytes). The prover knows
nothing of `^`; `PowerAssumption` tells it what a power of two is.

**What a block does** (`BlockProofs`). That a lowered block does what its words do is
proved for every word of either frontend, block length, size of memory, number of
registers and width that meets `WidthAssumption`. `TrackingInv` is inductive relative
to `BuilderInv`: while nothing has faulted, memory is the same in the machine that ran
the ops and in the guest that executed the words, and what `Shown` gives for each
guest register, the value of its vreg if it has one and its place in the CPU state if
not, is the guest's. Two parts are there to make it inductive. CR is never in a vreg
(`b.at[cr] = NoReg`), so nothing goes stale when a field of it is set behind the
builder. And the zero register of AArch64 holds zero (`Fits`), as `StartAssumption`
says of the states in which a block of that frontend is entered. Of the registers of a
PowerPC nothing is assumed: they are of 64 bits, and may hold any.

The argument is a simulation. `Sim(b, m, R, n)` is the invariant between a builder, a
machine and a guest state `R`; `Leads(b, m, c, u)` says that `c` has the ops of `b` and
more, and that running on from `m` ends in `u`; `Goes` adds that every vreg known
before keeps its value. There is one lemma per method of `IrBuilder`: what it appends
computes the value it is named for. `Does` composes them, one lemma per mnemonic, to
the effect that `PpcEffect` or `A64Effect` gives. A load or store can also fault
(`FaultsAt`), after the same stores on both sides; the ops after it are then lowered
and not run, and what the builder alone needs is shown with `Blank`, a machine without
history. An exit (`Exits`) flushes every register, which is what makes the CPU state
that of the guest. `LoweringTracksRegisters` and `BlockDoesItsWords` follow, and
`TranslationTyped`, the types alone.

`ArithFacts` has what this needs of numbers: the bits of a word
determine it; masks, quotients and truncation bit by bit; that a narrow op of narrow
values is the op at full width, truncated. The vector sum is uninterpreted, and
`VecAssumption` says it is a word. Where an argument is by induction over numbers, it
is by the least element of a set of counterexamples, since the library's induction
theorems take operators.

**The design** (`DesignProofs`). The allocator of the design keeps no table of what
is stale: it sorts the active intervals after each change and removes from the list by
swapping. Most of the work is that none of this loses anything. `RanksFill`: an
element of a finite set is at the place given by the number of those before it, and
every place is taken, so `compute_intervals` lists each virtual register once in the
order of starts (`IntervalsByStart`), and sorting `active` permutes it (`ByEndFacts`).
`Shared` (each register of the pool is free once, or held by one active interval)
survives each turn of `expire_old` (`ExpireTurnKeeps`) and each placement. `AllocInv`
adds to it that an interval already placed is in a slot of its own, or active in the
register that the map gives it, or has ended before the start of the last one placed;
that of two of them which overlap the places differ; and that the map names the placed
intervals and no other. The third case is what lets a register be handed out again,
and it stays true because intervals come in the order of their starts.
`DesignLiveApart` follows, and `DesignSpillsFarthest`: `Farthest` is an entry that ends
last, and it is in memory rather than the current interval only if it ends later.
Nothing is assumed of what the frontend pushes: that the passes leave a block, whatever
they were given, is `OptimisedIsSeq`. `DesignAssumption` says that virtual registers
are numbers and there are finitely many, as of a `u32`, and that the pool is not empty
and has no register twice.

**The passes of the design** (`DesignProofs`). `DesignPassesPreserve` is proved pass by
pass. The block a pass was given and the one it leaves run side by side, op by op, where
a dropped op is a step of the first alone, and `Alike` is the invariant of the run: the
same memory, trace and exit; the same flags, if an op behind still reads them before
another sets them (`Observed`); the same value of each register, except of a set of
unknown ones that no op still to be run reads.

- `FoldPreserves`. `FoldMet`: what `constants` records of a register is what the block
  computes for it. `FoldCorrect`: folding at full width and masking is the op at its
  own width, for which a shift must not bring down bits from above it (`ShiftsFit`).
  A folded `and` or `mul` no longer computes its value; its destination is unknown,
  and the op after it that would read it has the constant instead.
- `EliminationPreserves`. `ElimMet` ties each recorded fact to the machine:
  substitutions to values of registers, cached loads and stores to the bytes that
  memory holds. `LoadOfStore`: the bytes of a store, read back, are the stored value
  truncated. A store to other literal addresses changes no byte of a fact that is
  kept, and the ops that can write anywhere leave no facts. A removed load leaves its
  destination unknown; where a use of it stays (see below), nothing defines that use,
  which is why `UsesAreDefined` is a premise (`KeptUses`).
- `DeadFlagsPreserve`. What a dropped op sets is not read before it is set again or
  the block ends.

A register is defined once (`SingleAssignment`), or a fact about it would go stale at
its second definition, which `redundant_load_elimination` does not look for. All this
is for blocks of any length over any registers, memories and widths that meet
`DesignAssumption`: a byte is no wider than a word, a literal is a word, and in the
states a block starts from no register is defined yet. A `designWidth` is a whole
number of bytes, and 2 to its power a multiple of it, so that a shift amount taken
modulo the width survives truncation; 8, 16, 32 and 64 are such.

**Only model-checked.** Liveness (`Terminates`, `InsertReturns`, `CallsReturn`),
which is out of this prover's reach. Every other property of the passing runs is a
theorem.

## Disagreements with the design document

`architecture_fixed.rs` describes the design at length. Four runs end in a
counterexample to what it says:

- `emit_clobber`: all thirteen registers are "available for allocation" (:1180),
  and the emitter overwrites `RAX`, `RCX` and `RDX` without saving them
  (`emit.cpp:100` and others). With more than nine values live at once one of them
  can be lost. The flush at the end of a block keeps every guest register it
  touched live, so this many are reached easily.
- `passes_narrow`: the document masks a folded value to the width of the op
  (:608); `passes.rs:16` folds in 64 bits whatever the width. `li r3,-2` followed by
  `rlwinm r4,r3,1,0,31` leaves `0xFFFFFFFF` in `r4` instead of `0xFFFFFFFD`.
- `stale`: "On a guest write into a tracked page, every listed block is
  invalidated" (:1924). Nothing invalidates a block (`runtime.rs:53`).

- `design_loads`: "its destination VReg is substituted into later operands and the
  Load itself is removed" (:940). `resolve_substitution` (:627) writes only
  immediates back, so a use of the removed load is left and nothing defines it.

A fifth is plain from the text: the design spills "the interval with the farthest
end" (:1172), the current one included (:1453), and `regalloc.rs:36` always spills an
active one, even when the current interval ends later. Both are sound, as `scan` and
`design` show; `FarthestEndIsSpilled` holds of the design only.

## Observations

What the code does that a reader of it may not expect, and the models keep:

- *PowerPC.* The record bit sets CR0 to zero flag and sign, as bits 2 and 0. `bclr`
  ignores its condition, and with the link bit it branches to the LR it has just
  written. `bc` never decrements CTR. `crand` writes its bit as the whole of its
  field and so clears the other three. The halves of an SPR number are not swapped,
  so `mflr` reads SPR 256, which no intrinsic knows and which is therefore 0, and
  `mtlr` writes nothing. `PpcEffect` has all of this: `lowering` says that blocks do
  what the frontend's instructions do, not that these are the architecture's.
- *PowerPC registers hold 64 bits.* Lowered ops are of 32 bits, but an op over
  immediates is folded in 64 and the result stored whole (`emit.cpp:165`, `:173`):
  `li r3,-2` leaves `0xFFFFFFFFFFFFFFFE` in `gpr[3]`, and `bl` leaves the whole of a
  pc above 2^32 in LR, which the next `blr` branches to. `lowering` has the
  truncating op of before the fold, and enters blocks with wide registers.
- *AArch64.* A NOP is of a class that decodes as unknown, which emits nothing of
  effect. SUB and ADDS decode as ADD, MOVN and MOVK as MOVZ. Register 31 as source of
  an ADD is zero, not SP.
- *Emitter.* A 32-bit load ignores `sign_ext`; no frontend asks for one.
  `emit_cmp_cr_field` and `emit_return` have no caller.
- *Capacity.* `jit_patch_chain` has no caller either; the block it would jump to
  begins with its own prologue.
- *The design's fold.* Of a literal wider than the op, `shr` folds with the bits
  above the width, which the op would not see: `ShiftsFit` excludes it. A folded
  `and` or `mul` stays one, with the operands `value` and `0`, and so
  computes 0 when it is run: later operands have the value by substitution, and
  what survives of the op is unused except by a substitution that was not made.
- *The design's cache.* `page_to_blocks` is never filled and `insert` never evicts.
  All flags are taken for dead at the end of a block.

## Not modelled

- Bit positions of instruction fields: a word is a record. `disasm` and the
  encoders of tests.
- Instruction encoding (`jit/x86asm.hpp`), the probing of CPU features and the
  choice of strategy, which the emitter stores and never reads: pure functions over
  bytes, better tested than modelled.
- FFI marshalling (`ffi.rs`): field-by-field copies between two layouts. The fixed
  array of eight operands is never filled by a frontend.
- Page protection inside `jit_emit_block`, which either returns a mapping or leaves
  none (`Emit`, `EmitFails`), and `jit_patch_chain`, which nothing calls. If its
  second `mprotect` failed, the page would stay writable and not executable
  (`emit.cpp:283`).
- What a spill slot behind `CpuState::spill` overwrites. In `Emitter` it is a place of
  its own; in the code it would be `cr`, `lr`, `ctr` or what follows them.
- The sizes of guest memory below 4 GiB that are tried when mapping fails, and a
  `write_bytes` that is cut off at the end of memory. Addresses behind the map do
  fault in `lowering`.
- Floating point and vector arithmetic: uninterpreted, but for the lanes of `ps_add`.
- GPU frame parsing, which has no state and returns nothing, and the command line.
- Of `architecture_fixed.rs`: the folding of scalars of 128 bits, its marshalling,
  its cache and dispatch loop (simpler forms of those built), and what is `todo!()`.

## Next

`RunsMappedCode` composed with `Emitter`: one step from a dispatched block to its ops.
