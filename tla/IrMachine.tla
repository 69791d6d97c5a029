------------------------------ MODULE IrMachine ------------------------------
(***************************************************************************)
(* What the code of an IR op does when it runs, as jit/emit.cpp emits it,  *)
(* register allocation aside: the CPU state, the guest memory and a value  *)
(* for each virtual register.                                              *)
(***************************************************************************)
EXTENDS IrBuilder, GuestBytes

CONSTANTS
  CrBits,        \* 32
  MemSize,       \* bytes of the map of guest memory
  VecSum(_, _)   \* addps on the low half of two vector registers

ASSUME VecAssumption == \A x, y \in Word : VecSum(x, y) \in Word

GuestReg == CachedReg \cup {pc}

(* The bits of CR, in fields of four, numbered from the left.              *)
HostBit(bit) == CrBits - 1 - bit
FieldShift(field) == CrBits - 4 - 4 * field

(* status: "run", "exit" when the code has jumped to its epilogue, "fault" *)
(* when it accessed an address behind the map.                             *)
Machine ==
  [reg : [GuestReg -> Word], mem : [0..(MemSize - 1) -> Byte],
   zero : 0..1, negative : 0..1,
   env : [VReg -> Word], status : {"run", "exit", "fault"}]

(* What the guest can see of it.                                           *)
GuestState(m) ==
  IF m.status = "fault" THEN [mem |-> m.mem, reg |-> "lost"]
  ELSE [mem |-> m.mem, reg |-> m.reg]

-----------------------------------------------------------------------------
Fault(m) == [m EXCEPT !.status = "fault"]

(* The register is zero-extended from 32 bits before mem_base is added.    *)
Address(x) == Trunc(x, NarrowBits)

InMap(a, bytes) == a + bytes <= MemSize

(* SET_CR_FIELD                                                            *)
WithField(x, field, v) ==
  LET unit == 2 ^ FieldShift(field)
  IN  x - ((x \div unit) % 16) * unit + (v % 16) * unit

(* The GET_ intrinsics; one that the emitter does not know gives zero.     *)
GetValue(r, m) ==
  CASE r \in GuestReg  -> m.reg[r]
    [] r.id = "crbit"  -> BitOf(m.reg[cr], HostBit(r.n))
    [] OTHER           -> 0

SetRegs(r, m, x) ==
  CASE r \in GuestReg   -> [m.reg EXCEPT ![r] = x]
    [] r.id = "crfield" -> [m.reg EXCEPT ![cr] = WithField(@, r.n, x)]
    [] OTHER            -> m.reg

-----------------------------------------------------------------------------
(* The code of one op on m.                                                *)
Exec(op, m) ==
  LET k     == op.kind
      X(j)  == IF op.args[j] \in Imm THEN op.args[j] ELSE m.env[op.args[j]]
      To(x) == [m EXCEPT !.env[op.dst] = x]
      bits  == IF k.wide THEN WideBits ELSE NarrowBits
      flags == Emitted("and", k.wide, X(1), X(2))  \* no other FlagOp is used
  IN
  CASE k.name \in aluNames -> To(Emitted(k.name, k.wide, X(1), X(2)))
    [] k.name = "vec"      -> To(VecSum(X(1), X(2)))
    [] k.name = "get"      -> To(GetValue(k.reg, m))
    [] k.name = "set"      ->
         [m EXCEPT !.reg = SetRegs(k.reg, m, IF op.args = <<>> THEN 0 ELSE X(1))]
    [] k.name = "readflag" -> To(m[k.flag])
    [] k.name = "setflags" ->
         [m EXCEPT !.zero = IF flags = 0 THEN 1 ELSE 0,
                   !.negative = BitOf(flags, bits - 1)]
    [] k.name = "load"     ->
         IF InMap(Address(X(1)), k.bytes)
         THEN To(LoadBytes(m.mem, Address(X(1)), k.bytes, k.big)) ELSE Fault(m)
    [] k.name = "store"    ->
         IF InMap(Address(X(1)), k.bytes)
         THEN [m EXCEPT !.mem = StoreBytes(@, Address(X(1)), k.bytes, k.big, X(2))]
         ELSE Fault(m)
    [] k.name = "branch"   ->
         [m EXCEPT !.reg[pc] = IF op.args = <<>> \/ X(1) # 0 THEN k.taken ELSE k.fall,
                   !.status = "exit"]
    [] k.name = "indirect" -> [m EXCEPT !.reg[pc] = X(1), !.status = "exit"]
    [] k.name = "return"   -> [m EXCEPT !.status = "exit"]

(* The code of ops n.. of a block, until it leaves the block.              *)
RunFrom(ops, n, m) ==
  LET after[j \in (n - 1)..Len(ops)] ==
        IF j < n THEN m
        ELSE LET s == after[j - 1]
             IN  IF s.status = "run" THEN Exec(ops[j], s) ELSE s
  IN  after[Len(ops)]
=============================================================================
