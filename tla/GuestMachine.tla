----------------------------- MODULE GuestMachine -----------------------------
(***************************************************************************)
(* What the JIT promises: the guest machine that executes one instruction  *)
(* of its memory at a time, as it stands when it is executed.  It executes *)
(* only within a call of the embedding program and while it is not halted; *)
(* only between calls may the embedding program write the memory, move the *)
(* pc, or halt and resume the guest.                                       *)
(***************************************************************************)
EXTENDS GuestIsa

VARIABLES
  mem, pc, acc, halted,
  running   \* within a call of the embedding program

machineVars == <<mem, pc, acc, halted, running>>

MachineInit ==
  /\ mem \in [Cell -> Word]
  /\ pc \in GuestPc
  /\ acc \in Word
  /\ halted = FALSE
  /\ running = FALSE

Step ==
  /\ running /\ ~halted
  /\ LET insn == Fetch(mem, pc)
     IN  /\ mem' = MemAfter(insn, mem, acc)
         /\ acc' = AccAfter(insn, mem, acc)
         /\ pc' = PcAfter(insn, pc, acc)
  /\ UNCHANGED <<halted, running>>

Call == ~running /\ running' = TRUE /\ UNCHANGED <<mem, pc, acc, halted>>

Return == running /\ running' = FALSE /\ UNCHANGED <<mem, pc, acc, halted>>

Write ==
  /\ ~running
  /\ \E c \in Cell, w \in Word : mem' = [mem EXCEPT ![c] = w]
  /\ UNCHANGED <<pc, acc, halted, running>>

SetCpu ==
  /\ ~running
  /\ pc' \in GuestPc
  /\ halted' \in BOOLEAN
  /\ UNCHANGED <<mem, acc, running>>

MachineNext == Step \/ Call \/ Return \/ Write \/ SetCpu

MachineSpec == MachineInit /\ [][MachineNext]_machineVars
=============================================================================
