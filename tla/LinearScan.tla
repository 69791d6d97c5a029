----------------------------- MODULE LinearScan -----------------------------
(***************************************************************************)
(* The register allocator, src/core/regalloc.rs.  linear_scan makes one    *)
(* pass over the ops of an IR block to find the live interval of every     *)
(* virtual register, then visits the intervals in order of their start and *)
(* gives each a host register, evicting the active interval that ends last *)
(* to a spill slot when no register is free.                               *)
(*                                                                         *)
(* Every iteration of every loop of the function is one step, so that the  *)
(* order in which registers return to the free stack, which decides which  *)
(* register is handed out next, is the code's.                             *)
(***************************************************************************)
EXTENDS Ir, FiniteSets, SequencesExt

CONSTANTS
  HostGpr,   \* host registers
  HostGprs,  \* the pool, HOST_GPRS: a sequence, handed out from its end
  Blocks     \* the IR blocks the allocator may be called on

ASSUME PoolAssumption ==
  /\ HostGprs \in Seq(HostGpr)
  /\ Len(HostGprs) > 0
  /\ \A j, k \in 1..Len(HostGprs) : HostGprs[j] = HostGprs[k] => j = k

ASSUME BlocksAssumption == Blocks \subseteq Seq(Op)

VARIABLES
  block,       \* the argument: a sequence of ops
  pc,          \* where linear_scan is: "scan", "next", "expire", "place", "done"
  i,           \* the op being scanned
  first,       \* HashMap vreg -> index of the first op that names it
  last,        \* HashMap vreg -> index of the last op that names it
  pending,     \* vregs whose interval has not been visited
  cur,         \* the vreg whose interval is being placed, or NoReg
  k,           \* position of the retain() sweep in active
  active,      \* Vec<(Interval, CHostGpr)>
  free,        \* Vec<CHostGpr>, a stack
  map,         \* HashMap vreg -> Location
  next_spill   \* byte offset of the next spill slot

vars == <<block, pc, i, first, last, pending, cur, k, active, free, map,
          next_spill>>

-----------------------------------------------------------------------------
SlotBytes == 8

(* Faulty slots, for the mutation runs: one slot for all, one slot early,  *)
(* one slot late.                                                          *)
SpillFirst(off) == [kind |-> "Spill", offset |-> 0]
SpillEarly(off) == [kind |-> "Spill", offset |-> off - SlotBytes]
SpillLate(off)  == [kind |-> "Spill", offset |-> off + SlotBytes]

(* enum Location *)
Reg(g)     == [kind |-> "Reg", gpr |-> g]
Spill(off) == [kind |-> "Spill", offset |-> off]

Location == [kind : {"Reg"}, gpr : HostGpr] \cup [kind : {"Spill"}, offset : Nat]

(* Faulty: drops the last element whichever is to go.                      *)
RemoveLast(s, n) == [j \in 1..(Len(s) - 1) |-> s[j]]

(* Vec::swap_remove: the last element takes the place of the removed one.  *)
SwapRemove(s, n) ==
  [j \in 1..(Len(s) - 1) |-> IF j = n THEN s[Len(s)] ELSE s[j]]

(* Iterator::max_by_key on a.end: the last of the maximal elements.        *)
IsFurthest(n) ==
  /\ n \in 1..Len(active)
  /\ \A j \in 1..Len(active) :
       /\ last[active[j].vreg] <= last[active[n].vreg]
       /\ j > n => last[active[j].vreg] < last[active[n].vreg]

(* Faulty ends of an interval: one op early, one op late.                  *)
HasEndedEarly(n) == last[active[n].vreg] <= first[cur]
HasEndedLate(n)  == last[active[n].vreg] + 1 < first[cur]

(* The condition of active.retain(), negated.                              *)
HasEnded(n) == last[active[n].vreg] < first[cur]

(* HashMap::new()                                                          *)
EmptyMap == [v \in {} |-> 0]

Init ==
  /\ block \in Blocks
  /\ pc = "scan"
  /\ i = 1
  /\ first = EmptyMap
  /\ last = EmptyMap
  /\ pending = {}
  /\ cur = NoReg
  /\ k = 1
  /\ active = <<>>
  /\ free = HostGprs
  /\ map = EmptyMap
  /\ next_spill = 0

-----------------------------------------------------------------------------
(* One op of the first loop: or_insert keeps the first index, insert       *)
(* overwrites the last.                                                    *)
ScanOp ==
  /\ pc = "scan"
  /\ i <= Len(block)
  /\ LET t == Touched(block[i])
     IN  /\ first' = [v \in DOMAIN first \cup t |->
                        IF v \in DOMAIN first THEN first[v] ELSE i]
         /\ last'  = [v \in DOMAIN last \cup t |->
                        IF v \in t THEN i ELSE last[v]]
  /\ i' = i + 1
  /\ UNCHANGED <<block, pc, pending, cur, k, active, free, map, next_spill>>

(* The intervals are collected from a HashMap and sorted by start.         *)
CollectIntervals ==
  /\ pc = "scan"
  /\ i > Len(block)
  /\ pending' = DOMAIN first
  /\ pc' = "next"
  /\ UNCHANGED <<block, i, first, last, cur, k, active, free, map, next_spill>>

(* The next interval of the sorted list.  The sort is stable over the      *)
(* arbitrary order of the HashMap, so any interval of least start may come *)
(* first.                                                                  *)
NextInterval ==
  /\ pc = "next"
  /\ \E v \in pending :
       /\ \A u \in pending : first[v] <= first[u]
       /\ cur' = v
       /\ pending' = pending \ {v}
  /\ k' = 1
  /\ pc' = "expire"
  /\ UNCHANGED <<block, i, first, last, active, free, map, next_spill>>

(* The closure of active.retain() on one element that has ended: its       *)
(* register is pushed on the free stack.                                   *)
Expire ==
  /\ pc = "expire"
  /\ k <= Len(active)
  /\ HasEnded(k)
  /\ free' = Append(free, active[k].gpr)
  /\ active' = RemoveAt(active, k)
  /\ UNCHANGED <<block, pc, i, first, last, pending, cur, k, map, next_spill>>

(* Faulty: the sweep stays where it is.                                    *)
RetainAgain == pc = "expire" /\ k <= Len(active) /\ ~HasEnded(k) /\ UNCHANGED vars

(* The closure of active.retain() on one element that is still live.       *)
Retain ==
  /\ pc = "expire"
  /\ k <= Len(active)
  /\ ~HasEnded(k)
  /\ k' = k + 1
  /\ UNCHANGED <<block, pc, i, first, last, pending, cur, active, free, map,
                 next_spill>>

Swept ==
  /\ pc = "expire"
  /\ k > Len(active)
  /\ pc' = "place"
  /\ UNCHANGED <<block, i, first, last, pending, cur, k, active, free, map,
                 next_spill>>

(* Faulty: the free list as a queue.                                       *)
PlaceInFirst ==
  /\ pc = "place"
  /\ free # <<>>
  /\ map' = [v \in DOMAIN map \cup {cur} |->
               IF v = cur THEN Reg(Head(free)) ELSE map[v]]
  /\ active' = Append(active, [vreg |-> cur, gpr |-> Head(free)])
  /\ free' = Tail(free)
  /\ cur' = NoReg
  /\ pc' = "next"
  /\ UNCHANGED <<block, i, first, last, pending, k, next_spill>>

(* if let Some(gpr) = free.pop()                                           *)
PlaceInFree ==
  /\ pc = "place"
  /\ free # <<>>
  /\ map' = [v \in DOMAIN map \cup {cur} |->
               IF v = cur THEN Reg(Last(free)) ELSE map[v]]
  /\ active' = Append(active, [vreg |-> cur, gpr |-> Last(free)])
  /\ free' = Front(free)
  /\ cur' = NoReg
  /\ pc' = "next"
  /\ UNCHANGED <<block, i, first, last, pending, k, next_spill>>

(* No register is free: the active interval that ends last moves to a new  *)
(* spill slot, for the whole of its life, and the current interval takes   *)
(* its register, whichever of the two ends later.  The last branch of the  *)
(* code, nothing free and nothing active, is no action here: the pool is   *)
(* never empty, and a state that took it would deadlock the model.         *)
PlaceBySpilling ==
  /\ pc = "place"
  /\ free = <<>>
  /\ \E n \in 1..Len(active) :
       /\ IsFurthest(n)
       /\ map' = [v \in DOMAIN map \cup {cur} |->
                    IF v = cur THEN Reg(active[n].gpr)
                    ELSE IF v = active[n].vreg THEN Spill(next_spill)
                    ELSE map[v]]
       /\ active' = Append(SwapRemove(active, n),
                           [vreg |-> cur, gpr |-> active[n].gpr])
  /\ next_spill' = next_spill + SlotBytes
  /\ cur' = NoReg
  /\ pc' = "next"
  /\ UNCHANGED <<block, i, first, last, pending, k, free>>

Finish ==
  /\ pc = "next"
  /\ pending = {}
  /\ pc' = "done"
  /\ UNCHANGED <<block, i, first, last, pending, cur, k, active, free, map,
                 next_spill>>

Returned == pc = "done" /\ UNCHANGED vars

Next ==
  \/ ScanOp \/ CollectIntervals
  \/ NextInterval \/ Expire \/ Retain \/ Swept
  \/ PlaceInFree \/ PlaceBySpilling
  \/ Finish \/ Returned

Spec == Init /\ [][Next]_vars /\ WF_vars(Next)
-----------------------------------------------------------------------------
(* The ops at which v holds a value: from its first to its last mention.   *)
LiveAt(n) ==
  {v \in VReg : \E a \in 1..n, b \in n..Len(block) :
                  v \in Touched(block[a]) /\ v \in Touched(block[b])}

Disjoint(u, v) == last[u] < first[v] \/ last[v] < first[u]

PartialFunction(f, D, R) == DOMAIN f \subseteq D /\ \A x \in DOMAIN f : f[x] \in R

(* Every variable has its type.                                            *)
TypeOK ==
  /\ block \in Seq(Op)
  /\ pc \in {"scan", "next", "expire", "place", "done"}
  /\ i \in 1..(Len(block) + 1)
  /\ first = [v \in DOMAIN first |-> first[v]]
  /\ PartialFunction(first, VReg, Nat)
  /\ last = [v \in DOMAIN first |-> last[v]]
  /\ PartialFunction(last, VReg, Nat)
  /\ pending \subseteq DOMAIN first
  /\ cur \in VReg \cup {NoReg}
  /\ (pc \in {"expire", "place"}) <=> (cur # NoReg)
  /\ cur # NoReg => cur \in DOMAIN first
  /\ k \in Nat \ {0}
  /\ active \in Seq([vreg : VReg, gpr : HostGpr])
  /\ free \in Seq(HostGpr)
  /\ map = [v \in DOMAIN map |-> map[v]]
  /\ PartialFunction(map, VReg, Location)
  /\ next_spill \in Nat

(* Two values that are live at the same op of the finished block never     *)
(* share a register or a slot, and every value the block names has a       *)
(* place: the contract the emitter's lookup() relies on, which reads a     *)
(* vreg without entry as RAX.                                              *)
LiveValuesApart ==
  pc = "done" =>
    \A n \in 1..Len(block) :
      \A u, v \in LiveAt(n) :
        /\ u \in DOMAIN map
        /\ map[u] = map[v] => u = v

(* At every step of the scan, vregs placed in the same register have       *)
(* intervals that do not touch, whatever was evicted in between.           *)
SharedRegistersDisjoint ==
  \A u, v \in DOMAIN map :
    u # v /\ map[u] = map[v] => map[u].kind = "Reg" /\ Disjoint(u, v)

(* Every register of the pool is either on the free stack or held by       *)
(* exactly one active interval, and map agrees about which: a register     *)
(* pushed twice or lost by the retain() sweep breaks it.                   *)
PoolPartition ==
  /\ Len(free) + Len(active) = Len(HostGprs)
  /\ \A j, n \in 1..Len(active) : active[j].gpr = active[n].gpr => j = n
  /\ \A j, n \in 1..Len(free) : free[j] = free[n] => j = n
  /\ \A j \in 1..Len(active), n \in 1..Len(free) : active[j].gpr # free[n]
  /\ \A j \in 1..Len(active) :
       /\ active[j].vreg \in DOMAIN map
       /\ map[active[j].vreg] = Reg(active[j].gpr)

(* A value leaves registers only where more values are live at one op than *)
(* there are registers: stale entries of active never cause a spill.       *)
SpillOnlyUnderPressure ==
  next_spill > 0 =>
    \E n \in 1..Len(block) : Cardinality(LiveAt(n)) > Len(HostGprs)

(* The first register of the pool, HostGprs[1], is the last resort: the    *)
(* j-th is given to a value only in a block where at least Len - j + 1     *)
(* values are live at one op.  The emitter uses HostGprs[1], [3] and [4]   *)
(* (RAX, RCX, RDX) as scratch, and this is what keeps values out of them   *)
(* in blocks of low pressure.                                              *)
ScarceRegistersLast ==
  \A j \in 1..Len(HostGprs) :
    (\E v \in DOMAIN map : map[v] = Reg(HostGprs[j])) =>
      \E n \in 1..Len(block) :
        Cardinality(LiveAt(n)) >= Len(HostGprs) - j + 1

(* The spill area holds one 8-byte slot per evicted interval, slots are    *)
(* never reused, and at least as many intervals as there are registers     *)
(* were placed before the first eviction.                                  *)
SpillBudget ==
  /\ next_spill = SlotBytes * Cardinality({v \in DOMAIN map : map[v].kind = "Spill"})
  /\ next_spill > 0 =>
       next_spill <= SlotBytes * (Cardinality(DOMAIN map) - Len(HostGprs))
  /\ \A v \in DOMAIN map : map[v].kind = "Spill" => map[v].offset < next_spill

(* Once placed, a value keeps its place, except that a register may be     *)
(* taken from a value whose interval is still open, in favour of the       *)
(* interval being placed.                                                  *)
OnlyOpenIntervalsMove ==
  [][\A v \in DOMAIN map :
       v \in DOMAIN map' /\ (map'[v] # map[v] =>
         /\ map[v].kind = "Reg"
         /\ map'[v].kind = "Spill"
         /\ last[v] >= first[cur]
         /\ map'[cur] = map[v])]_vars

(* The allocator returns: each interval is swept, placed and left behind.  *)
Terminates == <>(pc = "done")

-----------------------------------------------------------------------------
(* The inductive invariant behind the properties above.                    *)

(* The vregs whose interval is still to be placed.                         *)
Waiting == pending \cup ({cur} \ {NoReg})

(* first and last enclose every mention scanned so far, and the second     *)
(* loop starts from a full scan and empty tables.                          *)
ScanInv ==
  /\ \A a \in 1..(i - 1) : \A v \in Touched(block[a]) :
       v \in DOMAIN first /\ first[v] <= a /\ a <= last[v]
  /\ \A v \in DOMAIN first :
       /\ first[v] \in 1..(i - 1) /\ v \in Touched(block[first[v]])
       /\ last[v] \in first[v]..(i - 1) /\ v \in Touched(block[last[v]])
  /\ pc # "scan" => i = Len(block) + 1
  /\ pc = "scan" =>
       /\ pending = {}
       /\ active = <<>>
       /\ free = HostGprs
       /\ map = EmptyMap
       /\ next_spill = 0

(* Intervals are visited once each, in order of their start.               *)
OrderInv ==
  /\ pc # "scan" => DOMAIN first = DOMAIN map \cup Waiting
  /\ DOMAIN map \cap Waiting = {}
  /\ cur \notin pending
  /\ \A u \in DOMAIN map, v \in Waiting : first[u] <= first[v]
  /\ cur # NoReg => \A v \in pending : first[cur] <= first[v]
  /\ pc = "done" => pending = {}

(* The sweep has passed only intervals that are open at the start of the   *)
(* current one.                                                            *)
SweepInv ==
  pc \in {"expire", "place"} =>
    /\ k <= Len(active) + 1
    /\ pc = "place" => k = Len(active) + 1
    /\ \A j \in 1..(k - 1) : last[active[j].vreg] >= first[cur]

(* A value still mapped to a register either holds it now or has ended     *)
(* before anything that remains to be placed.                              *)
HeldInv ==
  \A v \in DOMAIN map :
    IF map[v].kind = "Reg"
      THEN \/ \E j \in 1..Len(active) : active[j].vreg = v
           \/ \A u \in Waiting : last[v] < first[u]
      ELSE map[v].offset < next_spill

(* The conjunction is inductive; it implies every invariant above that     *)
(* does not count values.                                                  *)
IInv ==
  /\ TypeOK
  /\ ScanInv
  /\ OrderInv
  /\ SweepInv
  /\ HeldInv
  /\ PoolPartition
  /\ SharedRegistersDisjoint

(* m registers at least were needed at once.                               *)
Peak(m) == m = 0 \/ \E n \in 1..Len(block) : Cardinality(LiveAt(n)) >= m

(* With m the highest number of active intervals so far, the bottom of the *)
(* free stack is untouched: its first Len - m registers are where they     *)
(* were, and no value has been placed in them.                             *)
PressureInv ==
  /\ IsFiniteSet(DOMAIN first)
  /\ SpillOnlyUnderPressure
  /\ \E m \in 0..Len(HostGprs) :
       /\ Peak(m)
       /\ Len(active) <= m
       /\ \A p \in 1..(Len(HostGprs) - m) :
            /\ free[p] = HostGprs[p]
            /\ \A v \in DOMAIN map : map[v] # Reg(HostGprs[p])
=============================================================================
