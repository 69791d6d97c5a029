------------------------------ MODULE MCDesign ------------------------------
(***************************************************************************)
(* Instances of Design: words of four bits, ops of two and four, bytes of  *)
(* two, all sixteen addresses.  Blocks are built as by an IrBuilder, each  *)
(* op over the values defined before it and literals.                      *)
(***************************************************************************)
EXTENDS Design

CONSTANTS rax, rbx

MCVReg == 101..106
MCPool == <<rax, rbx>>
MCHostGpr == {rax, rbx}

DefinedBy(b) == {b[n].dst : n \in DOMAIN b} \ {NoReg}

WithResult(b, kinds, args) ==
  {[kind |-> t, dst |-> 101 + Len(b), args |-> a] : t \in kinds, a \in args}
WithoutResult(kinds, args) ==
  {[kind |-> t, dst |-> NoReg, args |-> a] : t \in kinds, a \in args}

Single(S) == {<<x>> : x \in S}
Pairs(S, T) == {<<x, y>> : x \in S, y \in T}
Rising(S) == {<<x, y>> \in Pairs(S, S) : x < y}

AluKinds(names) == [name : names, bits : designWidth]
LoadKinds == [name : {"load"}, bits : {2}, signed : BOOLEAN, big : {TRUE}]
               \cup [name : {"load"}, bits : {4}, signed : {FALSE}, big : BOOLEAN]
StoreKinds == [name : {"store"}, bits : designWidth, big : {TRUE}]
WideStore == [name : {"store"}, bits : {4}, big : {TRUE}]
Intrinsic(effects) == [name : {"intrinsic"}, effects : effects]
Reading == Intrinsic({"Pure", "ReadsMem"})
Writing == Intrinsic({"WritesMem", "ReadsAndWritesMem", "Volatile"})
SetFlags == [name : {"setflags"}, bits : designWidth]
ReadFlags == [name : {"readflag"}, flag : {"zero", "negative"}]

(* 2, an address, once it has been folded.                                 *)
FoldsToTwo == [kind |-> [name |-> "add", bits |-> 4], dst |-> 101, args |-> <<14, 4>>]

(* Forwarding: a value or an address, what changes memory or reads it, a   *)
(* load or a store, a load or an op on what was loaded, a store of it.     *)
MemoryOps(b) ==
  CASE Len(b) = 1 ->
         WithoutResult(StoreKinds, Pairs({2, 3, 14, 101}, {11, 101}))
           \cup WithoutResult(Writing \cup [name : {"call"}], {<<9>>})
           \cup WithResult(b, Reading \cup LoadKinds, {<<2>>})
    [] Len(b) = 2 ->
         WithResult(b, LoadKinds, Single({2, 14, 101}))
           \cup WithoutResult(StoreKinds, Pairs({2, 3}, {5, 101}))
    [] Len(b) = 3 ->
         LET loaded == DefinedBy(b) \ {101, 102}
         IN  WithResult(b, AluKinds({"add"}), Pairs(loaded, {101}))
               \cup WithResult(b, LoadKinds, Single({2} \cup loaded))
    [] Len(b) = 4 -> WithoutResult(WideStore, {<<0, 104>>})
    [] OTHER -> {}

(* Folding of every op, in widths that differ, and flags.                  *)
AluOps(b) ==
  CASE Len(b) = 1 ->
         WithResult(b, AluKinds({"sub", "shr", "sar"}), {<<101, 3>>, <<7, 101>>})
           \cup WithoutResult(SetFlags, {<<101, 6>>})
    [] Len(b) = 2 ->
         WithResult(b, ReadFlags, {<<>>}) \cup WithoutResult(SetFlags, {<<101, 15>>})
    [] Len(b) = 3 ->
         WithResult(b, ReadFlags, {<<>>})
           \cup WithResult(b, AluKinds({"xor"}), Pairs({101}, DefinedBy(b)))
    [] Len(b) = 4 -> WithoutResult([name : {"branch"}], {<<104>>})
    [] OTHER -> {}

(* Pressure: values the passes know nothing of, and ops on any two.        *)
PressureOps(b) ==
  CASE Len(b) \in {1, 2} -> WithResult(b, Reading, {<<>>})
    [] Len(b) \in {3, 4, 5} -> WithResult(b, [name : {"add"}, bits : {4}], Rising(DefinedBy(b)))
    [] Len(b) = 6 -> WithoutResult(WideStore, Rising(DefinedBy(b)))
    [] OTHER -> {}

MCLowered(b) ==
  CASE b = <<>> ->
         WithResult(b, LoadKinds, {<<2>>}) \cup {FoldsToTwo}
           \cup WithResult(b, AluKinds(aluNames), {<<14, 3>>})
           \cup WithResult(b, Intrinsic({"ReadsMem"}), {<<>>})
    [] b # <<>> /\ (b[1] = FoldsToTwo \/ b[1].kind.name = "load") -> MemoryOps(b)
    [] b # <<>> /\ b[1] # FoldsToTwo /\ b[1].kind.name \in aluNames -> AluOps(b)
    [] b # <<>> /\ b[1].kind.name = "intrinsic" -> PressureOps(b)

MCStarts ==
  {[mem |-> [a \in Word |-> (3 * a + d) % 4], zero |-> 1, negative |-> 0, env |-> <<>>,
    trace |-> <<>>, left |-> FALSE] : d \in {1, 2}}
=============================================================================
