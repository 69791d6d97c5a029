------------------------------- MODULE Design -------------------------------
(***************************************************************************)
(* translate_block_at of the design, src/architecture_fixed.rs, between    *)
(* the frontend and the emitter: the passes run over a block, then         *)
(* linear_scan places one live interval after the other.  The register     *)
(* allocator is not that of src/core/regalloc.rs: an interval that ends    *)
(* last is spilled, be it an active one or the current one.                *)
(***************************************************************************)
EXTENDS DesignMachine, FiniteSets

CONSTANTS
  Lowered(_),   \* the ops a frontend may push next; none when the block is complete
  Starts,       \* the states in which a block may be entered
  HostGpr,      \* host registers
  HostGprs      \* the pool: a sequence, handed out from its end

ASSUME DesignAssumption ==
  /\ VReg \in SUBSET Nat /\ IsFiniteSet(VReg)
  /\ Kind = designKind
  /\ ByteBits \in 1..WideBits
  /\ Imm = Word
  /\ Starts \subseteq [mem : [Word -> Byte], zero : 0..1, negative : 0..1,
                       env : {<<>>}, trace : {<<>>}, left : {FALSE}]
  /\ HostGprs \in Seq(HostGpr) /\ HostGprs # <<>> /\ IsInjective(HostGprs)

VARIABLES
  src,        \* the block as the frontend lowered it
  ops,        \* and as the passes leave it
  intervals,  \* the live intervals of ops, in the order of linear_scan
  k,          \* the interval to be placed next; 0 before the passes
  active,     \* Vec<ActiveInterval>
  free,       \* Vec<HostGpr>, a stack
  map,        \* assignments
  next_slot   \* next_spill_slot

vars == <<src, ops, intervals, k, active, free, map, next_slot>>

Interval == [vreg : VReg, start : Nat, end : Nat]

(* enum Location, with the slots for the offsets of 8 bytes each.          *)
InReg(g) == [kind |-> "Reg", gpr |-> g]
StateSpill(slot) == [kind |-> "StateSpill", slot |-> slot]

-----------------------------------------------------------------------------
(* Where ops b defines and uses a vreg.                                    *)
Defs(b, v) == {n \in DOMAIN b : b[n].dst = v}
Uses(b, v) == {n \in DOMAIN b : v \in Operands(b[n])}

(* From the definition, or the first use of what no op defines, to the     *)
(* last use, or the definition of what no op uses.                         *)
IntervalOf(b, v) ==
  LET defs  == Defs(b, v)
      uses  == Uses(b, v)
      start == IF defs # {} THEN Min(defs) ELSE Min(uses)
  IN  [vreg |-> v, start |-> start, end |-> IF uses # {} THEN Max(uses) ELSE start]

StartsBefore(x, y) ==
  \/ x.start < y.start
  \/ x.start = y.start /\ x.end < y.end
  \/ x.start = y.start /\ x.end = y.end /\ x.vreg < y.vreg

(* The elements of S in the order Before.                                  *)
Sorted(S, Before(_, _)) ==
  [n \in 1..Cardinality(S) |->
     CHOOSE x \in S : Cardinality({y \in S : Before(y, x)}) = n - 1]

compute_intervals(b) ==
  Sorted({IntervalOf(b, v) : v \in {u \in VReg : Defs(b, u) \cup Uses(b, u) # {}}},
         StartsBefore)

(* Vec::swap_remove: the last element takes the place of the removed one.  *)
SwapRemove(s, n) ==
  [j \in 1..(Len(s) - 1) |-> IF j = n THEN s[Len(s)] ELSE s[j]]

(* Faulty: an interval gives its register back to the op that reads it.    *)
EndsWith(entry, start) == entry.interval.end <= start

HasEnded(entry, start) == entry.interval.end < start

(* One turn of the loop at position index of the active intervals.         *)
ExpireTurn(s, start) ==
  IF s.index > Len(s.active) THEN s
  ELSE IF HasEnded(s.active[s.index], start)
  THEN [s EXCEPT !.active = SwapRemove(@, s.index),
                 !.free = Append(@, s.active[s.index].reg)]
  ELSE [s EXCEPT !.index = @ + 1]

expire_old(start) ==
  Sweep(LAMBDA s, turn : ExpireTurn(s, start),
        [active |-> active, free |-> free, index |-> 1], active)

(* The stable sort of active by the ends of the intervals.                 *)
ByEnd(s) ==
  LET Earlier(i, j) ==
        \/ s[i].interval.end < s[j].interval.end
        \/ s[i].interval.end = s[j].interval.end /\ i < j
      order == Sorted(DOMAIN s, Earlier)
  IN  [n \in DOMAIN s |-> s[order[n]]]

Active(interval, reg) == [interval |-> interval, reg |-> reg]

(* max_by_key: the last of the maximal elements.                           *)
Farthest(s) ==
  CHOOSE n \in DOMAIN s : \A j \in DOMAIN s :
    /\ s[j].interval.end <= s[n].interval.end
    /\ j > n => s[j].interval.end < s[n].interval.end

-----------------------------------------------------------------------------
Init ==
  /\ src = <<>>
  /\ ops = <<>>
  /\ intervals = <<>>
  /\ k = 0
  /\ active = <<>>
  /\ free = HostGprs
  /\ map = <<>>
  /\ next_slot = 0

Push ==
  /\ k = 0
  /\ \E op \in Lowered(src) : src' = Append(src, op)
  /\ UNCHANGED <<ops, intervals, k, active, free, map, next_slot>>

(* The passes, and the intervals of what they leave.                       *)
Optimise ==
  /\ k = 0
  /\ Lowered(src) = {}
  /\ ops' = run_all(src)
  /\ intervals' = compute_intervals(ops')
  /\ k' = 1
  /\ UNCHANGED <<src, active, free, map, next_slot>>

Placing == k \in 1..Len(intervals)

(* The state of the loop behind expire_old.                                *)
Left == expire_old(intervals[k].start)

(* A register is free.                                                     *)
PlaceFree ==
  /\ Placing
  /\ Left.free # <<>>
  /\ map' = Insert(map, intervals[k].vreg, InReg(Last(Left.free)))
  /\ free' = Front(Left.free)
  /\ active' = ByEnd(Append(Left.active, Active(intervals[k], Last(Left.free))))
  /\ k' = k + 1
  /\ UNCHANGED <<src, ops, intervals, next_slot>>

(* Faulty: the current interval always gets the register.                  *)
AlwaysEvicts(n) == TRUE

Evicts(n) == Left.active[n].interval.end > intervals[k].end

(* An active interval ends later: it is spilled, and its register taken.   *)
PlaceEvicting ==
  /\ Placing
  /\ Left.free = <<>>
  /\ LET n == Farthest(Left.active)
         e == Left.active[n]
     IN  /\ Evicts(n)
         /\ map' = Insert(Insert(map, e.interval.vreg, StateSpill(next_slot)),
                            intervals[k].vreg, InReg(e.reg))
         /\ active' = ByEnd(Append(SwapRemove(Left.active, n), Active(intervals[k], e.reg)))
  /\ free' = <<>>
  /\ next_slot' = next_slot + 1
  /\ k' = k + 1
  /\ UNCHANGED <<src, ops, intervals>>

(* None does: the current interval is spilled.                             *)
PlaceSpilled ==
  /\ Placing
  /\ Left.free = <<>>
  /\ ~Evicts(Farthest(Left.active))
  /\ map' = Insert(map, intervals[k].vreg, StateSpill(next_slot))
  /\ active' = Left.active
  /\ free' = <<>>
  /\ next_slot' = next_slot + 1
  /\ k' = k + 1
  /\ UNCHANGED <<src, ops, intervals>>

Done == k > Len(intervals) /\ UNCHANGED vars

Next == Push \/ Optimise \/ PlaceFree \/ PlaceEvicting \/ PlaceSpilled \/ Done

Spec == Init /\ [][Next]_vars
-----------------------------------------------------------------------------
(* Every vreg the optimised block reads is defined by an op of it, as      *)
(* redundant_load_elimination promises when it removes a load.             *)
UsesAreDefined ==
  \A n \in DOMAIN ops : \A v \in Operands(ops[n]) : \E j \in 1..(n - 1) : ops[j].dst = v

(* A right shift of a literal wider than the op is folded with the bits    *)
(* above the width; no other op is.                                        *)
ShiftsFit ==
  \A n \in DOMAIN src : src[n].kind.name = "shr" =>
    LET a == src[n].args[1]
        Fits(x) == x < 2 ^ src[n].kind.bits
    IN  IF a \in Imm THEN Fits(a)
        ELSE \A j \in Defs(src, a) :
               src[j].kind.name \in aluNames => src[j].kind.bits <= src[n].kind.bits

(* Folding, forwarding loads and dropping flags is invisible: of a block   *)
(* that defines a register once, wherever each literal fits its shift and  *)
(* no load has been replaced by the result of another, the optimised form  *)
(* leaves the same memory and has the same effects in the same order as    *)
(* the block it was made from.                                             *)
PassesPreserve ==
  k = 1 /\ SingleAssignment(src) /\ ShiftsFit /\ UsesAreDefined =>
    \A m \in Starts : Outcome(DesignRun(ops, m)) = Outcome(DesignRun(src, m))

(* Two virtual registers that are live at the same op have locations of    *)
(* their own, and no register is lost or held twice.                       *)
LiveApart ==
  /\ \A i, j \in 1..(k - 1) :
       i < j /\ intervals[j].start <= intervals[i].end
         => map[intervals[i].vreg] # map[intervals[j].vreg]
  /\ LET held == [n \in DOMAIN active |-> active[n].reg] \o free
     IN  IsInjective(held) /\ ToSet(held) = ToSet(HostGprs)

EndOf(v) == intervals[CHOOSE n \in DOMAIN intervals : intervals[n].vreg = v].end

(* What is spilled ends no earlier than all that stay in registers.        *)
FarthestEndIsSpilled ==
  [][\A v \in DOMAIN map' :
       map'[v].kind = "StateSpill" /\ (v \in DOMAIN map => map[v].kind = "Reg") =>
         \A n \in DOMAIN active' :
           EndOf(v) >= active'[n].interval.end]_vars
=============================================================================
