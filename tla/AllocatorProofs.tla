--------------------------- MODULE AllocatorProofs ---------------------------
(***************************************************************************)
(* Theorems about the register allocator, for every pool of registers and  *)
(* every block: the values that are live together are kept apart, the pool *)
(* is never corrupted, and a value moves at most once.                     *)
(* And about the code that the emitter makes of its places: it computes on *)
(* the operands the IR names, for every block and pool, if no live value   *)
(* sits in a register that an op clobbers (ClobberFree), and so in every   *)
(* block that leaves four registers of the pool to spare (LowPressure).    *)
(***************************************************************************)
EXTENDS Emitter, SequenceFacts, FiniteSetTheorems, Integers

(* swap_remove() keeps every element but the n-th.                         *)
LEMMA SwapRemoveFacts ==
  ASSUME NEW S, NEW s \in Seq(S), NEW n \in 1..Len(s)
  PROVE  /\ SwapRemove(s, n) \in Seq(S)
         /\ Len(SwapRemove(s, n)) = Len(s) - 1
         /\ \A j \in 1..(Len(s) - 1) :
              SwapRemove(s, n)[j] = IF j = n THEN s[Len(s)] ELSE s[j]
BY DEF SwapRemove

(* Registers and slots are distinct locations, and each is determined by   *)
(* its register or its offset.                                             *)
LEMMA LocationFacts ==
  /\ \A g \in HostGpr : Reg(g) \in Location /\ Reg(g).kind = "Reg"
  /\ \A n \in Nat : /\ Spill(n) \in Location
                    /\ Spill(n).kind = "Spill"
                    /\ Spill(n).offset = n
  /\ \A g, h : Reg(g) = Reg(h) => g = h
  /\ \A g, n : Reg(g) # Spill(n)
BY DEF Reg, Spill, Location

(* The tables of a fresh call.                                             *)
LEMMA InitIInv == Init => IInv
<1> SUFFICES ASSUME Init PROVE IInv
  OBVIOUS
<1> USE PoolAssumption, BlocksAssumption, NoRegAssumption DEF Init, EmptyMap
<1>1. TypeOK
  BY DEF TypeOK, PartialFunction
<1>2. ScanInv
  BY DEF ScanInv
<1>3. OrderInv
  BY DEF OrderInv, Waiting
<1>4. SweepInv
  BY DEF SweepInv
<1>5. HeldInv
  BY DEF HeldInv
<1>6. PoolPartition
  BY DEF PoolPartition
<1>7. SharedRegistersDisjoint
  BY DEF SharedRegistersDisjoint
<1> QED
  BY <1>1, <1>2, <1>3, <1>4, <1>5, <1>6, <1>7 DEF IInv

(* The first loop keeps first and last around every mention seen.          *)
LEMMA ScanOpIInv == IInv /\ ScanOp => IInv'
<1> SUFFICES ASSUME IInv, ScanOp PROVE IInv'
  OBVIOUS
<1> USE DEF ScanOp
<1>0. /\ TypeOK /\ ScanInv /\ OrderInv /\ PoolPartition
      /\ block \in Seq(Op) /\ i \in 1..Len(block) /\ cur = NoReg
  <2>1. TypeOK /\ ScanInv /\ OrderInv /\ PoolPartition
    BY DEF IInv
  <2>2. block \in Seq(Op) /\ i \in 1..(Len(block) + 1) /\ cur = NoReg
    BY <2>1 DEF TypeOK
  <2>3. Len(block) \in Nat
    BY <2>2, LenProperties
  <2> QED
    BY <2>1, <2>2, <2>3
<1>a. block[i] \in Op
  BY <1>0, ElementOfSeq
<1>b. Touched(block[i]) \subseteq VReg
  BY <1>a DEF Touched, Operands, Op
<1>1. TypeOK'
  <2>1. (first = [v \in DOMAIN first |-> first[v]])' /\ (last = [v \in DOMAIN first |-> last[v]])'
    BY <1>0 DEF TypeOK
  <2>2. PartialFunction(first, VReg, Nat)' /\ PartialFunction(last, VReg, Nat)'
    BY <1>0, <1>b DEF TypeOK, PartialFunction
  <2> QED
    BY <1>0, <2>1, <2>2 DEF TypeOK, PartialFunction
<1>2. ScanInv'
  <2>1. DOMAIN last = DOMAIN first /\ DOMAIN first' = DOMAIN first \cup Touched(block[i])
    BY <1>0 DEF TypeOK
  <2>2. ASSUME NEW v \in DOMAIN first'
        PROVE  /\ first'[v] \in 1..(i' - 1) /\ v \in Touched(block[first'[v]])
               /\ last'[v] \in first'[v]..(i' - 1) /\ v \in Touched(block[last'[v]])
    <3>1. CASE v \in DOMAIN first /\ v \in Touched(block[i])
      BY <1>0, <2>1, <3>1 DEF ScanInv
    <3>2. CASE v \in DOMAIN first /\ v \notin Touched(block[i])
      BY <1>0, <2>1, <3>2 DEF ScanInv
    <3>3. CASE v \notin DOMAIN first
      BY <1>0, <2>1, <3>3
    <3> QED
      BY <3>1, <3>2, <3>3
  <2>3. ASSUME NEW a \in 1..(i - 1), NEW v \in Touched(block[a])
        PROVE  v \in DOMAIN first' /\ first'[v] <= a /\ a <= last'[v]
    BY <1>0, <2>1 DEF ScanInv
  <2>4. ASSUME NEW v \in Touched(block[i])
        PROVE  v \in DOMAIN first' /\ first'[v] <= i /\ i <= last'[v]
    <3>1. v \in DOMAIN first' /\ first'[v] \in 1..(i' - 1)
      BY <2>1, <2>2
    <3>2. last'[v] = i
      BY <2>1
    <3> QED
      BY <1>0, <3>1, <3>2
  <2>5. \A a \in 1..(i' - 1) : a \in 1..(i - 1) \/ a = i
    BY <1>0
  <2>6. \A a \in 1..(i' - 1) : \A v \in Touched(block[a]) :
          v \in DOMAIN first' /\ first'[v] <= a /\ a <= last'[v]
    BY <2>3, <2>4, <2>5
  <2> QED
    BY <1>0, <2>2, <2>6 DEF ScanInv
<1>3. map' = EmptyMap /\ active' = <<>> /\ pc' = "scan" /\ cur' = NoReg /\ pending' = {}
  BY <1>0 DEF ScanInv
<1>4. OrderInv' /\ SweepInv' /\ HeldInv' /\ SharedRegistersDisjoint'
  BY <1>3 DEF OrderInv, SweepInv, HeldInv, SharedRegistersDisjoint, Waiting, EmptyMap
<1>5. PoolPartition'
  BY <1>0 DEF PoolPartition
<1> QED
  BY <1>1, <1>2, <1>4, <1>5 DEF IInv

(* The steps of the second loop leave the scan's results alone.            *)
LEMMA ScanInvStays ==
  ASSUME ScanInv, pc' # "scan", pc # "scan",
         UNCHANGED <<block, i, first, last>>
  PROVE  ScanInv'
BY DEF ScanInv

(* The second loop starts from every interval and empty tables.            *)
LEMMA CollectIntervalsIInv == IInv /\ CollectIntervals => IInv'
<1> SUFFICES ASSUME IInv, CollectIntervals PROVE IInv'
  OBVIOUS
<1> USE DEF CollectIntervals
<1>1. TypeOK'
  BY DEF IInv, TypeOK, PartialFunction
<1>2. ScanInv'
  <2>1. ScanInv /\ i \in 1..(Len(block) + 1) /\ block \in Seq(Op)
    BY DEF IInv, TypeOK
  <2>2. i = Len(block) + 1
    BY <2>1, LenProperties
  <2> QED
    BY <2>1, <2>2 DEF ScanInv
<1>3. map = EmptyMap /\ active = <<>> /\ cur = NoReg
  BY DEF IInv, ScanInv, TypeOK
<1>4. cur \notin DOMAIN first
  BY <1>3, NoRegAssumption DEF IInv, TypeOK, PartialFunction
<1>5. OrderInv' /\ SweepInv' /\ HeldInv' /\ SharedRegistersDisjoint'
  BY <1>3, <1>4 DEF OrderInv, SweepInv, HeldInv, SharedRegistersDisjoint, Waiting, EmptyMap
<1>6. PoolPartition'
  BY DEF IInv, PoolPartition
<1> QED
  BY <1>1, <1>2, <1>5, <1>6 DEF IInv

(* Taking the least start keeps the rest after it.                         *)
LEMMA NextIntervalIInv == IInv /\ NextInterval => IInv'
<1> SUFFICES ASSUME IInv, NextInterval PROVE IInv'
  OBVIOUS
<1> USE DEF NextInterval
<1>0. cur = NoReg
  BY DEF IInv, TypeOK
<1>a. cur' \in pending /\ pending' = pending \ {cur'} /\ \A u \in pending : first[cur'] <= first[u]
  OBVIOUS
<1>b. cur' \in VReg /\ cur' \in DOMAIN first /\ cur' # NoReg
  BY <1>a, NoRegAssumption DEF IInv, TypeOK, PartialFunction
<1>c. Waiting' = Waiting
  BY <1>0, <1>a, <1>b DEF Waiting
<1>1. TypeOK'
  BY <1>a, <1>b DEF IInv, TypeOK, PartialFunction
<1>2. ScanInv'
  BY ScanInvStays DEF IInv
<1>3. OrderInv'
  BY <1>0, <1>a, <1>b, <1>c DEF IInv, OrderInv, Waiting
<1>4. SweepInv'
  BY DEF IInv, TypeOK, SweepInv
<1>5. HeldInv'
  BY <1>c DEF IInv, HeldInv
<1>6. SharedRegistersDisjoint' /\ PoolPartition'
  BY DEF IInv, SharedRegistersDisjoint, Disjoint, PoolPartition
<1> QED
  BY <1>1, <1>2, <1>3, <1>4, <1>5, <1>6 DEF IInv

(* retain() passes an interval that is still open.                         *)
LEMMA RetainIInv == IInv /\ Retain => IInv'
<1> SUFFICES ASSUME IInv, Retain PROVE IInv'
  OBVIOUS
<1> USE DEF Retain
<1>1. TypeOK'
  BY DEF IInv, TypeOK, PartialFunction
<1>2. ScanInv'
  BY ScanInvStays DEF IInv
<1>3. OrderInv' /\ HeldInv'
  BY DEF IInv, OrderInv, HeldInv, Waiting
<1>4. SweepInv'
  <2>1. Len(active) \in Nat /\ k \in Nat \ {0}
    BY LenProperties DEF IInv, TypeOK
  <2>2. \A j \in 1..(k - 1) : last[active[j].vreg] >= first[cur]
    BY DEF IInv, SweepInv
  <2>3. last[active[k].vreg] >= first[cur]
    <3>1. active[k] \in [vreg : VReg, gpr : HostGpr] /\ active[k].vreg \in DOMAIN first
      <4>1. k \in 1..Len(active)
        BY <2>1
      <4> QED
        BY <4>1, ElementOfSeq DEF IInv, TypeOK, PoolPartition, OrderInv
    <3>2. last[active[k].vreg] \in Nat /\ first[cur] \in Nat
      BY <3>1 DEF IInv, TypeOK, PartialFunction
    <3> QED
      BY <3>2 DEF HasEnded
  <2>4. \A j \in 1..(k' - 1) : j \in 1..(k - 1) \/ j = k
    BY <2>1
  <2>5. \A j \in 1..(k' - 1) : last'[active'[j].vreg] >= first'[cur']
    BY <2>2, <2>3, <2>4
  <2>6. pc' = "expire" /\ k' <= Len(active') + 1
    BY <2>1
  <2> QED
    BY <2>5, <2>6 DEF SweepInv
<1>5. SharedRegistersDisjoint' /\ PoolPartition'
  BY DEF IInv, SharedRegistersDisjoint, Disjoint, PoolPartition
<1> QED
  BY <1>1, <1>2, <1>3, <1>4, <1>5 DEF IInv

(* The end of the retain() sweep.                                          *)
LEMMA SweptIInv == IInv /\ Swept => IInv'
<1> SUFFICES ASSUME IInv, Swept PROVE IInv'
  OBVIOUS
<1> USE DEF Swept
<1>1. TypeOK'
  BY DEF IInv, TypeOK, PartialFunction
<1>2. ScanInv'
  BY ScanInvStays DEF IInv
<1>3. OrderInv' /\ HeldInv'
  BY DEF IInv, OrderInv, HeldInv, Waiting
<1>4. SweepInv'
  BY LenProperties DEF IInv, TypeOK, SweepInv
<1>5. SharedRegistersDisjoint' /\ PoolPartition'
  BY DEF IInv, SharedRegistersDisjoint, Disjoint, PoolPartition
<1> QED
  BY <1>1, <1>2, <1>3, <1>4, <1>5 DEF IInv

(* The end of the interval loop.                                           *)
LEMMA FinishIInv == IInv /\ Finish => IInv'
<1> SUFFICES ASSUME IInv, Finish PROVE IInv'
  OBVIOUS
<1> USE DEF Finish
<1>1. TypeOK'
  BY DEF IInv, TypeOK, PartialFunction
<1>2. ScanInv'
  BY ScanInvStays DEF IInv
<1>3. OrderInv' /\ HeldInv' /\ SweepInv'
  BY DEF IInv, OrderInv, HeldInv, SweepInv, Waiting
<1>4. SharedRegistersDisjoint' /\ PoolPartition'
  BY DEF IInv, SharedRegistersDisjoint, Disjoint, PoolPartition
<1> QED
  BY <1>1, <1>2, <1>3, <1>4 DEF IInv

(* retain() moves one register from an ended interval to the free stack.   *)
LEMMA ExpireIInv == IInv /\ Expire => IInv'
<1> SUFFICES ASSUME IInv, Expire PROVE IInv'
  OBVIOUS
<1> USE DEF Expire
<1> DEFINE Entry == [vreg : VReg, gpr : HostGpr]
           gone == active[k]
<1>0. /\ active \in Seq(Entry) /\ free \in Seq(HostGpr)
      /\ k \in 1..Len(active) /\ Len(active) \in Nat /\ Len(free) \in Nat
  BY LenProperties DEF IInv, TypeOK
<1>a. gone \in Entry /\ \A j \in 1..Len(active) : active[j] \in Entry
  BY <1>0, ElementOfSeq
<1>b. /\ active' \in Seq(Entry)
      /\ Len(active') = Len(active) - 1
      /\ \A j \in 1..(Len(active) - 1) :
           active'[j] = IF j < k THEN active[j] ELSE active[j + 1]
  BY <1>0, RemoveAtFacts
<1>c. /\ free' \in Seq(HostGpr)
      /\ Len(free') = Len(free) + 1
      /\ \A j \in 1..Len(free) : free'[j] = free[j]
      /\ free'[Len(free) + 1] = gone.gpr
  BY <1>0, <1>a, AppendProperties
<1>d. \A j \in 1..Len(active') :
        \E n \in 1..Len(active) : n # k /\ active'[j] = active[n]
  <2> SUFFICES ASSUME NEW j \in 1..Len(active')
               PROVE  \E n \in 1..Len(active) : n # k /\ active'[j] = active[n]
    OBVIOUS
  <2>1. j \in 1..(Len(active) - 1)
    BY <1>b
  <2>2. CASE j < k
    <3>1. active'[j] = active[j]
      BY <1>b, <2>1, <2>2
    <3>2. j \in 1..Len(active) /\ j # k
      BY <1>0, <2>1, <2>2
    <3> QED
      BY <3>1, <3>2
  <2>3. CASE ~(j < k)
    <3>1. active'[j] = active[j + 1]
      BY <1>b, <2>1, <2>3
    <3>2. j + 1 \in 1..Len(active) /\ j + 1 # k
      BY <1>0, <2>1, <2>3
    <3> QED
      BY <3>1, <3>2
  <2> QED
    BY <2>2, <2>3
<1>e. \A n \in 1..Len(active) :
        n # k => \E j \in 1..Len(active') : active'[j] = active[n]
  <2> SUFFICES ASSUME NEW n \in 1..Len(active), n # k
               PROVE  \E j \in 1..Len(active') : active'[j] = active[n]
    OBVIOUS
  <2>1. CASE n < k
    <3>1. n \in 1..(Len(active) - 1)
      BY <1>0, <2>1
    <3>2. active'[n] = active[n]
      BY <1>b, <2>1, <3>1
    <3> QED
      BY <1>b, <3>1, <3>2
  <2>2. CASE n > k
    <3>1. n - 1 \in 1..(Len(active) - 1) /\ ~(n - 1 < k) /\ (n - 1) + 1 = n
      BY <1>0, <2>2
    <3>2. active'[n - 1] = active[n]
      BY <1>b, <3>1
    <3> QED
      BY <1>b, <3>1, <3>2
  <2>3. n < k \/ n > k
    <3>1. n \in Nat /\ k \in Nat
      BY <1>0
    <3> QED
      BY <3>1
  <2> QED
    BY <2>1, <2>2, <2>3
<1>1. TypeOK'
  BY <1>b, <1>c DEF IInv, TypeOK, PartialFunction
<1>2. ScanInv'
  BY ScanInvStays DEF IInv
<1>3. OrderInv'
  BY DEF IInv, OrderInv, Waiting
<1>4. SweepInv'
  <2>1. \A j \in 1..(k - 1) : j \in 1..(Len(active) - 1) /\ j < k
    BY <1>0
  <2>2. \A j \in 1..(k - 1) : active'[j] = active[j]
    BY <1>b, <2>1
  <2>3. \A j \in 1..(k - 1) : last[active[j].vreg] >= first[cur]
    BY DEF IInv, SweepInv
  <2>4. k' <= Len(active') + 1 /\ pc' = "expire"
    BY <1>0, <1>b
  <2> QED
    BY <2>2, <2>3, <2>4 DEF SweepInv
<1>5. HeldInv'
  <2> SUFFICES ASSUME NEW v \in DOMAIN map, map[v].kind = "Reg"
               PROVE  \/ \E j \in 1..Len(active') : active'[j].vreg = v
                      \/ \A u \in Waiting : last[v] < first[u]
    BY DEF IInv, HeldInv, Waiting
  <2>1. CASE v = gone.vreg
    <3>1. \A u \in Waiting : first[cur] <= first[u]
      <4>1. cur \in DOMAIN first /\ first[cur] \in Nat
        BY DEF IInv, TypeOK, PartialFunction
      <4> QED
        BY <4>1 DEF IInv, OrderInv, Waiting
    <3>2. /\ first[cur] \in Nat
          /\ \A u \in Waiting : first[u] \in Nat
      BY DEF IInv, TypeOK, PartialFunction, Waiting
    <3>3. last[v] \in Nat
      BY DEF IInv, TypeOK, PartialFunction, OrderInv
    <3>4. last[v] < first[cur]
      BY <2>1 DEF HasEnded
    <3> QED
      BY <3>1, <3>2, <3>3, <3>4
  <2>2. CASE v # gone.vreg
    BY <1>e, <2>2 DEF IInv, HeldInv
  <2> QED
    BY <2>1, <2>2
<1>6. PoolPartition'
  <2>1. PoolPartition
    BY DEF IInv
  <2>2. Len(free') + Len(active') = Len(HostGprs)
    <3>1. Len(free) + Len(active) = Len(HostGprs)
      BY <2>1 DEF PoolPartition
    <3>2. (Len(free) + 1) + (Len(active) - 1) = Len(free) + Len(active)
      BY <1>0
    <3> QED
      BY <1>b, <1>c, <3>1, <3>2
  <2>3. \A j, n \in 1..Len(active') : active'[j].gpr = active'[n].gpr => j = n
    <3> DEFINE Old(j) == IF j < k THEN j ELSE j + 1
    <3>0. \A j \in 1..Len(active') : j \in 1..(Len(active) - 1)
      BY <1>b
    <3>1. \A j \in 1..Len(active') :
            Old(j) \in 1..Len(active) /\ active'[j] = active[Old(j)]
      <4>1. \A j \in 1..Len(active') : active'[j] = active[Old(j)]
        BY <1>b, <3>0
      <4>2. \A j \in 1..Len(active') : Old(j) \in 1..Len(active)
        BY <1>0, <3>0
      <4> QED
        BY <4>1, <4>2
    <3>2. \A j, n \in 1..Len(active') : Old(j) = Old(n) => j = n
      BY <1>0, <3>0
    <3>3. \A j, n \in 1..Len(active) : active[j].gpr = active[n].gpr => j = n
      BY <2>1 DEF PoolPartition
    <3> HIDE DEF Old
    <3>4. SUFFICES ASSUME NEW j \in 1..Len(active'), NEW n \in 1..Len(active'),
                          active'[j].gpr = active'[n].gpr
                   PROVE  j = n
      OBVIOUS
    <3>5. active[Old(j)].gpr = active[Old(n)].gpr
      BY <3>1, <3>4
    <3> QED
      BY <3>1, <3>2, <3>3, <3>5
  <2>4. \A n \in 1..Len(free) : gone.gpr # free[n]
    BY <1>0, <2>1 DEF PoolPartition
  <2>5. \A j, n \in 1..Len(free') : free'[j] = free'[n] => j = n
    <3>1. \A j, n \in 1..Len(free) : free[j] = free[n] => j = n
      BY <2>1 DEF PoolPartition
    <3>2. \A j \in 1..Len(free') : j \in 1..Len(free) \/ j = Len(free) + 1
      BY <1>0, <1>c
    <3>3. \A j \in 1..Len(free') : j # Len(free) + 1 => free'[j] = free[j]
      BY <1>c, <3>2
    <3>4. \A j \in 1..Len(free') : j # Len(free) + 1 => free'[j] # gone.gpr
      BY <2>4, <3>2, <3>3
    <3> SUFFICES ASSUME NEW j \in 1..Len(free'), NEW n \in 1..Len(free'),
                        free'[j] = free'[n]
                 PROVE  j = n
      OBVIOUS
    <3>5. CASE j = Len(free) + 1 \/ n = Len(free) + 1
      BY <1>c, <3>4, <3>5
    <3>6. CASE j # Len(free) + 1 /\ n # Len(free) + 1
      BY <3>1, <3>2, <3>3, <3>6
    <3> QED
      BY <3>5, <3>6
  <2>6. \A j \in 1..Len(active') : active'[j].gpr # gone.gpr
    BY <1>0, <1>d, <2>1 DEF PoolPartition
  <2>7. \A j \in 1..Len(active'), n \in 1..Len(free') : active'[j].gpr # free'[n]
    <3> SUFFICES ASSUME NEW j \in 1..Len(active'), NEW n \in 1..Len(free')
                 PROVE  active'[j].gpr # free'[n]
      OBVIOUS
    <3>1. n \in 1..Len(free) \/ n = Len(free) + 1
      BY <1>0, <1>c
    <3>2. CASE n = Len(free) + 1
      BY <1>c, <2>6, <3>2
    <3>3. CASE n \in 1..Len(free)
      <4>1. free'[n] = free[n]
        BY <1>c, <3>3
      <4>2. PICK m \in 1..Len(active) : active'[j] = active[m]
        BY <1>d
      <4> QED
        BY <2>1, <3>3, <4>1, <4>2 DEF PoolPartition
    <3> QED
      BY <3>1, <3>2, <3>3
  <2>8. \A j \in 1..Len(active') :
          /\ active'[j].vreg \in DOMAIN map
          /\ map[active'[j].vreg] = Reg(active'[j].gpr)
    BY <1>d, <2>1 DEF PoolPartition
  <2> QED
    BY <2>2, <2>3, <2>5, <2>7, <2>8 DEF PoolPartition
<1>7. SharedRegistersDisjoint'
  BY DEF IInv, SharedRegistersDisjoint, Disjoint
<1> QED
  BY <1>1, <1>2, <1>3, <1>4, <1>5, <1>6, <1>7 DEF IInv

(* What holds of the current interval when it is placed: everything mapped *)
(* to a register and not active ended before it starts.                    *)
LEMMA CurrentFacts ==
  ASSUME IInv, pc = "place"
  PROVE  /\ cur \in VReg /\ cur \in DOMAIN first /\ cur # NoReg
         /\ cur \notin DOMAIN map /\ cur \notin pending
         /\ Waiting = pending \cup {cur}
         /\ active \in Seq([vreg : VReg, gpr : HostGpr])
         /\ Len(active) \in Nat
         /\ \A j \in 1..Len(active) : active[j] \in [vreg : VReg, gpr : HostGpr]
         /\ free \in Seq(HostGpr) /\ Len(free) \in Nat
         /\ DOMAIN map \subseteq DOMAIN first
         /\ DOMAIN last = DOMAIN first
         /\ \A v \in DOMAIN first : first[v] \in Nat /\ last[v] \in Nat
         /\ \A v \in pending : first[cur] <= first[v]
         /\ \A v \in DOMAIN map : first[v] <= first[cur]
         /\ \A v \in DOMAIN map :
              map[v].kind = "Reg" /\ (\A j \in 1..Len(active) : active[j].vreg # v)
                => last[v] < first[cur]
<1>1. /\ cur \in VReg /\ cur \in DOMAIN first /\ cur # NoReg
      /\ active \in Seq([vreg : VReg, gpr : HostGpr]) /\ free \in Seq(HostGpr)
      /\ DOMAIN last = DOMAIN first
      /\ \A v \in DOMAIN first : first[v] \in Nat /\ last[v] \in Nat
  BY NoRegAssumption DEF IInv, TypeOK, PartialFunction
<1>2. Waiting = pending \cup {cur}
  BY <1>1 DEF Waiting
<1>3. /\ Len(active) \in Nat /\ Len(free) \in Nat
      /\ \A j \in 1..Len(active) : active[j] \in [vreg : VReg, gpr : HostGpr]
  BY <1>1, LenProperties, ElementOfSeq
<1>4. /\ cur \notin DOMAIN map /\ cur \notin pending
      /\ DOMAIN map \subseteq DOMAIN first
      /\ \A v \in pending : first[cur] <= first[v]
      /\ \A v \in DOMAIN map : first[v] <= first[cur]
  BY <1>1, <1>2 DEF IInv, OrderInv
<1>5. \A v \in DOMAIN map :
        map[v].kind = "Reg" /\ (\A j \in 1..Len(active) : active[j].vreg # v)
          => last[v] < first[cur]
  BY <1>2 DEF IInv, HeldInv
<1> QED
  BY <1>1, <1>2, <1>3, <1>4, <1>5

(* A popped register is held by nothing that is still open.               *)
LEMMA PlaceInFreeIInv == IInv /\ PlaceInFree => IInv'
<1> SUFFICES ASSUME IInv, PlaceInFree PROVE IInv'
  OBVIOUS
<1> USE DEF PlaceInFree
<1> DEFINE Entry == [vreg : VReg, gpr : HostGpr]
           g == Last(free)
<1>0. /\ cur \in VReg /\ cur \in DOMAIN first /\ cur # NoReg
      /\ cur \notin DOMAIN map /\ cur \notin pending
      /\ Waiting = pending \cup {cur}
      /\ active \in Seq(Entry) /\ Len(active) \in Nat
      /\ \A j \in 1..Len(active) : active[j] \in Entry
      /\ free \in Seq(HostGpr) /\ Len(free) \in Nat
      /\ DOMAIN map \subseteq DOMAIN first
      /\ \A v \in DOMAIN first : first[v] \in Nat /\ last[v] \in Nat
      /\ \A v \in pending : first[cur] <= first[v]
      /\ \A v \in DOMAIN map : first[v] <= first[cur]
  BY CurrentFacts
<1>a. /\ Len(free) > 0 /\ g \in HostGpr /\ g = free[Len(free)]
      /\ free' \in Seq(HostGpr) /\ Len(free') = Len(free) - 1
      /\ \A j \in 1..(Len(free) - 1) : free'[j] = free[j]
  BY <1>0, PopFacts
<1>b. /\ active' \in Seq(Entry) /\ Len(active') = Len(active) + 1
      /\ \A j \in 1..Len(active) : active'[j] = active[j]
      /\ active'[Len(active) + 1] = [vreg |-> cur, gpr |-> g]
  BY <1>0, <1>a, AppendProperties
<1>c. /\ DOMAIN map' = DOMAIN map \cup {cur}
      /\ map'[cur] = Reg(g)
      /\ \A v \in DOMAIN map : map'[v] = map[v]
  BY <1>0
<1>d. Waiting' = pending /\ NoReg \notin pending
  BY NoRegAssumption DEF Waiting, IInv, TypeOK, PartialFunction
<1>e. \A j \in 1..Len(active') : j \in 1..Len(active) \/ j = Len(active) + 1
  BY <1>0, <1>b
<1>1. TypeOK'
  <2>1. PartialFunction(map, VReg, Location)'
    BY <1>0, <1>a, <1>c, LocationFacts DEF IInv, TypeOK, PartialFunction
  <2>2. map' = [v \in DOMAIN map' |-> map'[v]]
    OBVIOUS
  <2>3. /\ block \in Seq(Op)
        /\ i \in 1..(Len(block) + 1)
        /\ first = [v \in DOMAIN first |-> first[v]]
        /\ PartialFunction(first, VReg, Nat)
        /\ last = [v \in DOMAIN first |-> last[v]]
        /\ PartialFunction(last, VReg, Nat)
        /\ pending \subseteq DOMAIN first
        /\ k \in Nat \ {0}
        /\ next_spill \in Nat
    BY DEF IInv, TypeOK
  <2>4. UNCHANGED <<block, i, first, last, pending, k, next_spill>>
    OBVIOUS
  <2>5. PartialFunction(first, VReg, Nat)' /\ PartialFunction(last, VReg, Nat)'
    BY <2>3, <2>4 DEF PartialFunction
  <2>6. pc' = "next" /\ cur' = NoReg
    OBVIOUS
  <2> QED
    BY <1>a, <1>b, <2>1, <2>2, <2>3, <2>4, <2>5, <2>6 DEF TypeOK
<1>2. ScanInv'
  BY ScanInvStays DEF IInv
<1>3. OrderInv'
  BY <1>0, <1>c, <1>d DEF IInv, OrderInv
<1>4. SweepInv'
  BY DEF SweepInv
<1>5. HeldInv'
  <2>1. \E j \in 1..Len(active') : active'[j].vreg = cur
    BY <1>0, <1>b
  <2>2. map'[cur].kind = "Reg"
    BY <1>a, <1>c, LocationFacts
  <2>3. ASSUME NEW v \in DOMAIN map, map[v].kind = "Reg"
        PROVE  \/ \E j \in 1..Len(active') : active'[j].vreg = v
               \/ \A u \in pending : last[v] < first[u]
    <3>1. \A j \in 1..Len(active) : j \in 1..Len(active') /\ active'[j] = active[j]
      BY <1>0, <1>b
    <3> QED
      BY <1>0, <2>3, <3>1 DEF IInv, HeldInv
  <2>4. \A v \in DOMAIN map : map[v].kind # "Reg" => map[v].offset < next_spill
    BY DEF IInv, HeldInv
  <2> QED
    BY <1>c, <1>d, <2>1, <2>2, <2>3, <2>4 DEF HeldInv
<1>6. PoolPartition'
  <2>1. PoolPartition
    BY DEF IInv
  <2>2. Len(free') + Len(active') = Len(HostGprs)
    <3>1. Len(free) + Len(active) = Len(HostGprs)
      BY <2>1 DEF PoolPartition
    <3>2. (Len(free) - 1) + (Len(active) + 1) = Len(free) + Len(active)
      BY <1>0
    <3> QED
      BY <1>a, <1>b, <3>1, <3>2
  <2>3. /\ \A j \in 1..Len(active) : active[j].gpr # g
        /\ \A n \in 1..(Len(free) - 1) : free[n] # g
    BY <1>0, <1>a, <2>1 DEF PoolPartition
  <2>4. \A j, n \in 1..Len(active') : active'[j].gpr = active'[n].gpr => j = n
    BY <1>b, <1>e, <2>1, <2>3 DEF PoolPartition
  <2>5. \A j, n \in 1..Len(free') : free'[j] = free'[n] => j = n
    BY <1>0, <1>a, <2>1 DEF PoolPartition
  <2>6. \A j \in 1..Len(active'), n \in 1..Len(free') : active'[j].gpr # free'[n]
    <3>1. \A m \in 1..Len(free') : m \in 1..Len(free) /\ free'[m] = free[m] /\ free[m] # g
      <4> SUFFICES ASSUME NEW m \in 1..Len(free')
                   PROVE  m \in 1..Len(free) /\ free'[m] = free[m] /\ free[m] # g
        OBVIOUS
      <4>1. m \in 1..(Len(free) - 1)
        BY <1>a
      <4>2. m \in 1..Len(free)
        BY <1>0, <4>1
      <4> QED
        BY <1>a, <2>3, <4>1, <4>2
    <3>2. \A j \in 1..Len(active), m \in 1..Len(free) : active[j].gpr # free[m]
      BY <2>1 DEF PoolPartition
    <3>3. \A j \in 1..Len(active) : \A m \in 1..Len(free') : active'[j].gpr # free'[m]
      <4>1. \A j \in 1..Len(active) : active'[j] = active[j]
        BY <1>b
      <4> QED
        BY <3>1, <3>2, <4>1
    <3>4. \A m \in 1..Len(free') : active'[Len(active) + 1].gpr # free'[m]
      <4>1. active'[Len(active) + 1].gpr = g
        BY <1>b
      <4> QED
        BY <3>1, <4>1
    <3> QED
      BY <1>e, <3>3, <3>4
  <2>7. \A j \in 1..Len(active') :
          /\ active'[j].vreg \in DOMAIN map'
          /\ map'[active'[j].vreg] = Reg(active'[j].gpr)
    BY <1>b, <1>c, <1>e, <2>1 DEF PoolPartition
  <2> QED
    BY <2>2, <2>4, <2>5, <2>6, <2>7 DEF PoolPartition
<1>7. SharedRegistersDisjoint'
  <2>1. \A u, v \in DOMAIN map : u # v /\ map[u] = map[v] =>
          map[u].kind = "Reg" /\ Disjoint(u, v)
    BY DEF IInv, SharedRegistersDisjoint
  <2>2. ASSUME NEW v \in DOMAIN map, map[v] = Reg(g)
        PROVE  last[v] < first[cur]
    <3>1. map[v].kind = "Reg"
      BY <1>a, <2>2, LocationFacts
    <3>2. \A j \in 1..Len(active) : active[j].gpr # g
      BY <1>0, <1>a DEF IInv, PoolPartition
    <3>3. \A j \in 1..Len(active) : active[j].vreg # v
      BY <2>2, <3>2, LocationFacts DEF IInv, PoolPartition
    <3> QED
      BY <3>1, <3>3, CurrentFacts
  <2>3. map'[cur].kind = "Reg"
    BY <1>a, <1>c, LocationFacts
  <2> QED
    BY <1>c, <2>1, <2>2, <2>3 DEF SharedRegistersDisjoint, Disjoint
<1> QED
  BY <1>1, <1>2, <1>3, <1>4, <1>5, <1>6, <1>7 DEF IInv

(* The evicted interval leaves active and its register for a slot no other *)
(* value has; the current interval takes the register.                     *)
LEMMA PlaceBySpillingIInv == IInv /\ PlaceBySpilling => IInv'
<1> SUFFICES ASSUME IInv, PlaceBySpilling PROVE IInv'
  OBVIOUS
<1> DEFINE Entry == [vreg : VReg, gpr : HostGpr]
<1>s. /\ pc = "place" /\ pc' = "next" /\ cur' = NoReg /\ free = <<>>
      /\ next_spill' = next_spill + SlotBytes
      /\ UNCHANGED <<block, i, first, last, pending, k, free>>
  BY DEF PlaceBySpilling
<1>p. PICK n \in 1..Len(active) :
        /\ map' = [v \in DOMAIN map \cup {cur} |->
                     IF v = cur THEN Reg(active[n].gpr)
                     ELSE IF v = active[n].vreg THEN Spill(next_spill)
                     ELSE map[v]]
        /\ active' = Append(SwapRemove(active, n),
                            [vreg |-> cur, gpr |-> active[n].gpr])
  BY DEF PlaceBySpilling
<1> DEFINE g == active[n].gpr
           w == active[n].vreg
           rest == SwapRemove(active, n)
           Old(j) == IF j = n THEN Len(active) ELSE j
<1>0. /\ cur \in VReg /\ cur \in DOMAIN first /\ cur # NoReg
      /\ cur \notin DOMAIN map /\ cur \notin pending
      /\ Waiting = pending \cup {cur}
      /\ active \in Seq(Entry) /\ Len(active) \in Nat
      /\ \A j \in 1..Len(active) : active[j] \in Entry
      /\ DOMAIN map \subseteq DOMAIN first
      /\ \A v \in DOMAIN first : first[v] \in Nat /\ last[v] \in Nat
      /\ \A v \in pending : first[cur] <= first[v]
      /\ \A v \in DOMAIN map : first[v] <= first[cur]
  BY <1>s, CurrentFacts
<1>a. next_spill \in Nat /\ next_spill' \in Nat /\ next_spill < next_spill'
  BY <1>s DEF IInv, TypeOK, SlotBytes
<1>b. /\ rest \in Seq(Entry) /\ Len(rest) = Len(active) - 1
      /\ \A j \in 1..(Len(active) - 1) : rest[j] = active[Old(j)]
  BY <1>0, SwapRemoveFacts
<1>c. /\ g \in HostGpr /\ w \in VReg
      /\ w \in DOMAIN map /\ map[w] = Reg(g)
  BY <1>0 DEF IInv, PoolPartition
<1>d. /\ active' \in Seq(Entry) /\ Len(active') = Len(active)
      /\ \A j \in 1..(Len(active) - 1) : active'[j] = active[Old(j)]
      /\ active'[Len(active)] = [vreg |-> cur, gpr |-> g]
  <2>1. [vreg |-> cur, gpr |-> g] \in Entry
    BY <1>0, <1>c
  <2>2. active' = Append(rest, [vreg |-> cur, gpr |-> g])
    BY <1>p
  <2> HIDE DEF rest, g, Old, Entry
  <2>3. /\ active' \in Seq(Entry) /\ Len(active') = Len(rest) + 1
        /\ \A j \in 1..Len(rest) : active'[j] = rest[j]
        /\ active'[Len(rest) + 1] = [vreg |-> cur, gpr |-> g]
    BY <1>b, <2>1, <2>2, AppendProperties
  <2> QED
    BY <1>0, <1>b, <2>3
<1>e. /\ \A j \in 1..(Len(active) - 1) : Old(j) \in 1..Len(active) /\ Old(j) # n
      /\ \A j, m \in 1..(Len(active) - 1) : Old(j) = Old(m) => j = m
      /\ \A m \in 1..Len(active) :
           m # n => \E j \in 1..(Len(active) - 1) : Old(j) = m
  <2>1. /\ \A j \in 1..(Len(active) - 1) : Old(j) \in 1..Len(active) /\ Old(j) # n
        /\ \A j, m \in 1..(Len(active) - 1) : Old(j) = Old(m) => j = m
    BY <1>0
  <2>2. ASSUME NEW m \in 1..Len(active), m # n
        PROVE  \E j \in 1..(Len(active) - 1) : Old(j) = m
    <3>1. CASE m = Len(active)
      <4>1. n \in 1..(Len(active) - 1) /\ Old(n) = m
        BY <1>0, <2>2, <3>1
      <4> QED
        BY <4>1
    <3>2. CASE m # Len(active)
      <4>1. m \in 1..(Len(active) - 1) /\ Old(m) = m
        BY <1>0, <2>2, <3>2
      <4> QED
        BY <4>1
    <3> QED
      BY <3>1, <3>2
  <2> QED
    BY <2>1, <2>2
<1>f. /\ DOMAIN map' = DOMAIN map \cup {cur}
      /\ map'[cur] = Reg(g)
      /\ map'[w] = Spill(next_spill)
      /\ w # cur
      /\ \A v \in DOMAIN map : v # w => map'[v] = map[v]
  BY <1>0, <1>c, <1>p
<1>g. \A j \in 1..Len(active) : j # n => active[j].gpr # g /\ active[j].vreg # w
  BY <1>c, LocationFacts DEF IInv, PoolPartition
<1>h. Waiting' = pending /\ NoReg \notin pending
  BY <1>s, NoRegAssumption DEF Waiting, IInv, TypeOK, PartialFunction
<1>i. \A j \in 1..Len(active) : j \in 1..(Len(active) - 1) \/ j = Len(active)
  BY <1>0
<1> HIDE DEF g, w, rest, Old
<1>1. TypeOK'
  <2>1. PartialFunction(map, VReg, Location)'
    <3>1. PartialFunction(map, VReg, Location)
      BY DEF IInv, TypeOK
    <3>2. ASSUME NEW v \in DOMAIN map' PROVE v \in VReg /\ map'[v] \in Location
      <4>1. CASE v = cur
        BY <1>0, <1>c, <1>f, <4>1, LocationFacts
      <4>2. CASE v = w
        BY <1>a, <1>c, <1>f, <4>2, LocationFacts
      <4>3. CASE v # cur /\ v # w
        BY <1>f, <3>1, <4>3 DEF PartialFunction
      <4> QED
        BY <4>1, <4>2, <4>3
    <3> QED
      BY <3>2 DEF PartialFunction
  <2>2. map' = [v \in DOMAIN map' |-> map'[v]]
    BY <1>p
  <2>3. /\ block' \in Seq(Op) /\ pc' \in {"scan", "next", "expire", "place", "done"}
        /\ i' \in 1..(Len(block') + 1) /\ k' \in Nat \ {0}
    BY <1>s DEF IInv, TypeOK
  <2>4. /\ first' = [v \in DOMAIN first' |-> first'[v]]
        /\ PartialFunction(first, VReg, Nat)'
        /\ last' = [v \in DOMAIN first' |-> last'[v]]
        /\ PartialFunction(last, VReg, Nat)'
        /\ pending' \subseteq DOMAIN first'
    BY <1>s DEF IInv, TypeOK, PartialFunction
  <2>5. cur' = NoReg /\ pc' = "next" /\ next_spill' \in Nat
    BY <1>s, <1>0, <1>a DEF IInv, TypeOK
  <2>6. /\ active' \in Seq([vreg : VReg, gpr : HostGpr])
        /\ free' \in Seq(HostGpr)
    BY <1>s, <1>a, <1>d DEF IInv, TypeOK
  <2> QED
    BY <2>1, <2>2, <2>3, <2>4, <2>5, <2>6 DEF TypeOK
<1>2. ScanInv'
  BY <1>s, ScanInvStays DEF IInv
<1>3. OrderInv'
  BY <1>s, <1>0, <1>f, <1>h DEF IInv, OrderInv
<1>4. SweepInv'
  BY <1>s DEF SweepInv
<1>5. HeldInv'
  <2>1. \E j \in 1..Len(active') : active'[j].vreg = cur
    BY <1>0, <1>d
  <2>2. map'[cur].kind = "Reg" /\ map'[w].kind = "Spill" /\ map'[w].offset < next_spill'
    BY <1>a, <1>c, <1>f, LocationFacts
  <2>3. ASSUME NEW v \in DOMAIN map, v # w, map[v].kind = "Reg"
        PROVE  \/ \E j \in 1..Len(active') : active'[j].vreg = v
               \/ \A u \in pending : last[v] < first[u]
    <3>1. CASE \E m \in 1..Len(active) : active[m].vreg = v
      <4>1. PICK m \in 1..Len(active) : active[m].vreg = v
        BY <3>1
      <4>2. m # n
        BY <2>3, <4>1 DEF w
      <4>3. PICK j \in 1..(Len(active) - 1) : Old(j) = m
        BY <1>e, <4>2
      <4>4. j \in 1..Len(active')
        BY <1>0, <1>d, <4>3
      <4>5. active'[j].vreg = v
        BY <1>d, <4>1, <4>3
      <4> QED
        BY <4>4, <4>5
    <3>2. CASE ~ \E m \in 1..Len(active) : active[m].vreg = v
      BY <1>0, <2>3, <3>2 DEF IInv, HeldInv
    <3> QED
      BY <3>1, <3>2
  <2>4. ASSUME NEW v \in DOMAIN map, map[v].kind # "Reg"
        PROVE  map[v].offset < next_spill'
    <3>1. map[v].offset < next_spill
      BY <2>4 DEF IInv, HeldInv
    <3>2. map[v].offset \in Nat
      BY <2>4 DEF IInv, TypeOK, PartialFunction, Location
    <3> QED
      BY <1>a, <3>1, <3>2
  <2>5. \A v \in DOMAIN map' : v = cur \/ v = w \/ (v \in DOMAIN map /\ v # w /\ map'[v] = map[v])
    BY <1>f
  <2> QED
    BY <1>f, <1>h, <1>s, <2>1, <2>2, <2>3, <2>4, <2>5 DEF HeldInv
<1>6. PoolPartition'
  <2>1. PoolPartition
    BY DEF IInv
  <2>2. Len(free') + Len(active') = Len(HostGprs)
    BY <1>s, <1>d, <2>1 DEF PoolPartition
  <2>3. \A j \in 1..(Len(active) - 1) : active'[j].gpr # g
    BY <1>d, <1>e, <1>g
  <2>4. active'[Len(active)].gpr = g
    BY <1>d
  <2>5. \A j, m \in 1..(Len(active) - 1) : active'[j].gpr = active'[m].gpr => j = m
    <3>1. SUFFICES ASSUME NEW j \in 1..(Len(active) - 1), NEW m \in 1..(Len(active) - 1),
                          active'[j].gpr = active'[m].gpr
                   PROVE  j = m
      OBVIOUS
    <3>2. active[Old(j)].gpr = active[Old(m)].gpr
      BY <1>d, <3>1
    <3>3. Old(j) = Old(m)
      BY <1>e, <2>1, <3>2 DEF PoolPartition
    <3> QED
      BY <1>e, <3>3
  <2>6. \A j, m \in 1..Len(active') : active'[j].gpr = active'[m].gpr => j = m
    BY <1>d, <1>i, <2>3, <2>4, <2>5
  <2>7. \A j \in 1..Len(active') :
          /\ active'[j].vreg \in DOMAIN map'
          /\ map'[active'[j].vreg] = Reg(active'[j].gpr)
    <3>1. ASSUME NEW j \in 1..(Len(active) - 1)
          PROVE  /\ active'[j].vreg \in DOMAIN map'
                 /\ map'[active'[j].vreg] = Reg(active'[j].gpr)
      <4>1. Old(j) \in 1..Len(active) /\ Old(j) # n /\ active'[j] = active[Old(j)]
        BY <1>d, <1>e
      <4>2. active[Old(j)].vreg \in DOMAIN map /\ map[active[Old(j)].vreg] = Reg(active[Old(j)].gpr)
        BY <2>1, <4>1 DEF PoolPartition
      <4> QED
        BY <1>f, <1>g, <4>1, <4>2
    <3> QED
      BY <1>d, <1>f, <1>i, <3>1
  <2>8. Len(free') = 0 /\ 1..Len(free') = {}
    BY <1>s
  <2> QED
    BY <2>2, <2>6, <2>7, <2>8 DEF PoolPartition
<1>7. SharedRegistersDisjoint'
  <2>1. \A u, v \in DOMAIN map : u # v /\ map[u] = map[v] =>
          map[u].kind = "Reg" /\ Disjoint(u, v)
    BY DEF IInv, SharedRegistersDisjoint
  <2>2. ASSUME NEW v \in DOMAIN map, v # w, map[v] = Reg(g)
        PROVE  last[v] < first[cur]
    <3>1. map[v].kind = "Reg"
      BY <1>c, <2>2, LocationFacts
    <3>2. \A j \in 1..Len(active) : active[j].vreg # v
      <4>1. SUFFICES ASSUME NEW j \in 1..Len(active), active[j].vreg = v PROVE FALSE
        OBVIOUS
      <4>2. Reg(active[j].gpr) = Reg(g)
        BY <2>2, <4>1 DEF IInv, PoolPartition
      <4>3. active[j].gpr = g
        BY <4>2, LocationFacts
      <4>4. j = n
        BY <1>g, <4>3
      <4> QED
        BY <2>2, <4>1, <4>4 DEF w
    <3> QED
      BY <1>s, <3>1, <3>2, CurrentFacts
  <2>3. ASSUME NEW v \in DOMAIN map, v # w
        PROVE  map[v] # Spill(next_spill)
    <3>1. CASE map[v].kind = "Reg"
      BY <1>a, <3>1, LocationFacts
    <3>2. CASE map[v].kind # "Reg"
      <4>1. map[v].offset < next_spill /\ map[v].offset \in Nat
        BY <3>2 DEF IInv, HeldInv, TypeOK, PartialFunction, Location
      <4> QED
        BY <1>a, <4>1, LocationFacts
    <3> QED
      BY <3>1, <3>2
  <2>4. map'[cur].kind = "Reg" /\ map'[cur] # map'[w]
    BY <1>a, <1>c, <1>f, LocationFacts
  <2>5. \A v \in DOMAIN map' : v = cur \/ v = w \/ (v \in DOMAIN map /\ v # w /\ map'[v] = map[v])
    BY <1>f
  <2>6. \A v \in DOMAIN map : v # w /\ map'[v] = map'[cur] => last[v] < first[cur]
    BY <1>f, <2>2
  <2>7. \A v \in DOMAIN map : v # w => map'[v] # map'[w]
    BY <1>f, <2>3
  <2>8. ASSUME NEW u \in DOMAIN map', NEW v \in DOMAIN map', u # v, map'[u] = map'[v]
        PROVE  map'[u].kind = "Reg" /\ (last[u] < first[v] \/ last[v] < first[u])
    <3>1. CASE u = cur
      BY <2>4, <2>5, <2>6, <2>8, <3>1
    <3>2. CASE v = cur
      BY <2>4, <2>5, <2>6, <2>8, <3>2
    <3>3. CASE u # cur /\ v # cur
      BY <2>1, <2>5, <2>7, <2>8, <3>3 DEF Disjoint
    <3> QED
      BY <3>1, <3>2, <3>3
  <2> QED
    BY <1>s, <2>8 DEF SharedRegistersDisjoint, Disjoint
<1> QED
  BY <1>1, <1>2, <1>3, <1>4, <1>5, <1>6, <1>7 DEF IInv

(* Every step of linear_scan.                                              *)
LEMMA NextIInv == IInv /\ [Next]_vars => IInv'
<1> SUFFICES ASSUME IInv, [Next]_vars PROVE IInv'
  OBVIOUS
<1>1. CASE ScanOp
  BY <1>1, ScanOpIInv
<1>2. CASE CollectIntervals
  BY <1>2, CollectIntervalsIInv
<1>3. CASE NextInterval
  BY <1>3, NextIntervalIInv
<1>4. CASE Expire
  BY <1>4, ExpireIInv
<1>5. CASE Retain
  BY <1>5, RetainIInv
<1>6. CASE Swept
  BY <1>6, SweptIInv
<1>7. CASE PlaceInFree
  BY <1>7, PlaceInFreeIInv
<1>8. CASE PlaceBySpilling
  BY <1>8, PlaceBySpillingIInv
<1>9. CASE Finish
  BY <1>9, FinishIInv
<1>10. CASE UNCHANGED vars
  <2>1. TypeOK'
    BY <1>10 DEF vars, IInv, TypeOK, PartialFunction
  <2>2. ScanInv'
    BY <1>10 DEF vars, IInv, ScanInv
  <2>3. OrderInv' /\ HeldInv'
    BY <1>10 DEF vars, IInv, OrderInv, HeldInv, Waiting
  <2>4. SweepInv'
    BY <1>10 DEF vars, IInv, SweepInv
  <2>5. PoolPartition' /\ SharedRegistersDisjoint'
    BY <1>10 DEF vars, IInv, PoolPartition, SharedRegistersDisjoint, Disjoint
  <2> QED
    BY <2>1, <2>2, <2>3, <2>4, <2>5 DEF IInv
<1> QED
  BY <1>1, <1>2, <1>3, <1>4, <1>5, <1>6, <1>7, <1>8, <1>9, <1>10
     DEF Next, Returned

(* The allocator's tables keep their inductive invariant on every block.   *)
THEOREM IInvHolds == Spec => []IInv
BY InitIInv, NextIInv, PTL DEF Spec

(* Every table of linear_scan has its type at every step.                  *)
THEOREM TypeCorrect == Spec => []TypeOK
<1>1. IInv => TypeOK
  BY DEF IInv
<1> QED
  BY <1>1, IInvHolds, PTL

(* No register is lost, pushed twice, or held by two active intervals.     *)
THEOREM PoolNeverCorrupted == Spec => []PoolPartition
<1>1. IInv => PoolPartition
  BY DEF IInv
<1> QED
  BY <1>1, IInvHolds, PTL

(* At every step, values mapped to one register have disjoint intervals    *)
(* and no slot is shared.                                                  *)
THEOREM SharingIsDisjoint == Spec => []SharedRegistersDisjoint
<1>1. IInv => SharedRegistersDisjoint
  BY DEF IInv
<1> QED
  BY <1>1, IInvHolds, PTL

(* What the inductive invariant says of the finished allocation.             *)
LEMMA IInvImpliesApart == IInv => LiveValuesApart
<1> SUFFICES ASSUME IInv, pc = "done", NEW n \in 1..Len(block),
                    NEW u \in LiveAt(n), NEW v \in LiveAt(n)
             PROVE  /\ u \in DOMAIN map
                    /\ map[u] = map[v] => u = v
  BY DEF LiveValuesApart
<1>1. /\ i = Len(block) + 1 /\ Len(block) \in Nat
      /\ cur = NoReg /\ pending = {}
      /\ DOMAIN last = DOMAIN first
      /\ \A x \in DOMAIN first : first[x] \in Nat /\ last[x] \in Nat
  BY LenProperties DEF IInv, TypeOK, PartialFunction, ScanInv, OrderInv
<1>2. DOMAIN map = DOMAIN first
  BY <1>1 DEF IInv, OrderInv, Waiting
<1>3. ASSUME NEW x \in LiveAt(n)
      PROVE  x \in DOMAIN first /\ first[x] <= n /\ n <= last[x]
  <2>1. PICK a \in 1..n, b \in n..Len(block) :
          x \in Touched(block[a]) /\ x \in Touched(block[b])
    BY DEF LiveAt
  <2>2. a \in 1..(i - 1) /\ b \in 1..(i - 1)
    BY <1>1
  <2>3. x \in DOMAIN first /\ first[x] <= a /\ b <= last[x]
    BY <2>1, <2>2 DEF IInv, ScanInv
  <2> QED
    BY <1>1, <2>3
<1>4. u \in DOMAIN map /\ v \in DOMAIN map
  BY <1>2, <1>3
<1>5. ~Disjoint(u, v)
  BY <1>1, <1>3 DEF Disjoint
<1> QED
  BY <1>4, <1>5 DEF IInv, SharedRegistersDisjoint

(* When linear_scan returns, every value the block names has a place, and  *)
(* values live at the same op have different places: the allocation is     *)
(* sound for every block and every pool.                                   *)
THEOREM AllocationSound == Spec => []LiveValuesApart
BY IInvImpliesApart, IInvHolds, PTL

(* A placed value moves at most once, from a register to a slot, while its *)
(* interval is open and in favour of the interval being placed.            *)
THEOREM PlacesAreStable == Spec => OnlyOpenIntervalsMove
<1> DEFINE Stable ==
      \A v \in DOMAIN map :
        v \in DOMAIN map' /\ (map'[v] # map[v] =>
          /\ map[v].kind = "Reg"
          /\ map'[v].kind = "Spill"
          /\ last[v] >= first[cur]
          /\ map'[cur] = map[v])
<1>1. IInv /\ [Next]_vars => [Stable]_vars
  <2> SUFFICES ASSUME IInv, Next PROVE Stable
    OBVIOUS
  <2>1. CASE UNCHANGED map
    BY <2>1
  <2>2. CASE PlaceInFree
    BY <2>2, CurrentFacts DEF PlaceInFree
  <2>3. CASE PlaceBySpilling
    <3>1. PICK n \in 1..Len(active) :
            map' = [v \in DOMAIN map \cup {cur} |->
                      IF v = cur THEN Reg(active[n].gpr)
                      ELSE IF v = active[n].vreg THEN Spill(next_spill)
                      ELSE map[v]]
      BY <2>3 DEF PlaceBySpilling
    <3>2. cur \notin DOMAIN map /\ pc = "place"
      BY <2>3, CurrentFacts DEF PlaceBySpilling
    <3>3. /\ map[active[n].vreg] = Reg(active[n].gpr)
          /\ active[n].gpr \in HostGpr
          /\ next_spill \in Nat
      BY <3>2, CurrentFacts DEF IInv, PoolPartition, TypeOK
    <3>4. last[active[n].vreg] >= first[cur]
      <4>1. k = Len(active) + 1 /\ Len(active) \in Nat
        BY <3>2, CurrentFacts DEF IInv, SweepInv
      <4> QED
        BY <3>2, <4>1 DEF IInv, SweepInv
    <3> QED
      BY <3>1, <3>2, <3>3, <3>4, LocationFacts
  <2>4. CASE ScanOp \/ CollectIntervals \/ NextInterval \/ Expire \/ Retain
             \/ Swept \/ Finish \/ Returned
    BY <2>1, <2>4 DEF ScanOp, CollectIntervals, NextInterval, Expire, Retain,
                      Swept, Finish, Returned, vars
  <2> QED
    BY <2>2, <2>3, <2>4 DEF Next
<1> QED
  BY <1>1, IInvHolds, PTL DEF Spec, OnlyOpenIntervalsMove

-----------------------------------------------------------------------------
(* How many registers the allocator uses: a value leaves registers, and    *)
(* the bottom of the register pool is touched, only in blocks in which     *)
(* that many values are live at one op.                                    *)

(* An op names finitely many vregs.                                        *)
LEMMA TouchedFinite ==
  ASSUME NEW op \in Op
  PROVE  IsFiniteSet(Touched(op))
<1> DEFINE R == {op.args[j] : j \in 1..Len(op.args)}
<1>1. op.args \in Seq(VReg \cup Imm)
  BY DEF Op
<1>2. op.args \in [1..Len(op.args) -> VReg \cup Imm] /\ Len(op.args) \in Nat
  BY <1>1, LenProperties
<1>3. IsFiniteSet(1..Len(op.args))
  BY <1>2, FS_Interval
<1>4. op.args \in Surjection(1..Len(op.args), R)
  BY <1>2 DEF Surjection
<1>5. IsFiniteSet(R)
  BY <1>3, <1>4, FS_Surjection
<1>6. IsFiniteSet(R \cup {op.dst})
  BY <1>5, FS_AddElement
<1>7. Touched(op) \subseteq R \cup {op.dst}
  BY <1>2 DEF Touched, Operands
<1> QED
  BY <1>6, <1>7, FS_Subset

(* After the scan, the values live at an op are among those scanned.       *)
LEMMA LiveAreScanned ==
  ASSUME IInv, pc # "scan", NEW n \in 1..Len(block)
  PROVE  LiveAt(n) \subseteq DOMAIN first
<1>1. i = Len(block) + 1 /\ Len(block) \in Nat
  BY LenProperties DEF IInv, TypeOK, ScanInv
<1>2. ASSUME NEW v \in LiveAt(n) PROVE v \in DOMAIN first
  <2>1. PICK a \in 1..n : v \in Touched(block[a])
    BY DEF LiveAt
  <2>2. a \in 1..(i - 1)
    BY <1>1
  <2> QED
    BY <2>1, <2>2 DEF IInv, ScanInv
<1> QED
  BY <1>2

(* A value whose interval covers an op is live there.                      *)
LEMMA CoveredIsLive ==
  ASSUME IInv, pc # "scan", NEW v \in DOMAIN first, v \in VReg, NEW n \in Nat,
         first[v] <= n, n <= last[v]
  PROVE  v \in LiveAt(n)
<1>1. i = Len(block) + 1 /\ Len(block) \in Nat
  BY LenProperties DEF IInv, TypeOK, ScanInv
<1>2. /\ first[v] \in 1..(i - 1) /\ v \in Touched(block[first[v]])
      /\ last[v] \in first[v]..(i - 1) /\ v \in Touched(block[last[v]])
  BY DEF IInv, ScanInv
<1>3. first[v] \in 1..n /\ last[v] \in n..Len(block)
  BY <1>1, <1>2
<1> QED
  BY <1>2, <1>3 DEF LiveAt

(* Where an interval is placed, it and the active ones are live together.  *)
LEMMA ActiveAreLive ==
  ASSUME IInv, pc = "place", IsFiniteSet(DOMAIN first)
  PROVE  \E n \in 1..Len(block) : Cardinality(LiveAt(n)) >= Len(active) + 1
<1> DEFINE n == first[cur]
           N == Len(active) + 1
           f == [j \in 1..N |-> IF j = N THEN cur ELSE active[j].vreg]
<1>1. /\ cur \in VReg /\ cur \in DOMAIN first /\ cur \notin DOMAIN map
      /\ active \in Seq([vreg : VReg, gpr : HostGpr]) /\ Len(active) \in Nat
      /\ \A j \in 1..Len(active) : active[j] \in [vreg : VReg, gpr : HostGpr]
      /\ DOMAIN map \subseteq DOMAIN first
      /\ \A v \in DOMAIN first : first[v] \in Nat /\ last[v] \in Nat
      /\ \A v \in DOMAIN map : first[v] <= first[cur]
  BY CurrentFacts
<1>2. i = Len(block) + 1 /\ Len(block) \in Nat
  BY LenProperties DEF IInv, TypeOK, ScanInv
<1>3. n \in 1..Len(block) /\ last[cur] >= n
  BY <1>1, <1>2 DEF IInv, ScanInv
<1>4. cur \in LiveAt(n)
  BY <1>1, <1>3, CoveredIsLive
<1>5. ASSUME NEW j \in 1..Len(active)
      PROVE  /\ active[j].vreg \in LiveAt(n) /\ active[j].vreg # cur
             /\ active[j].vreg \in DOMAIN map
             /\ map[active[j].vreg] = Reg(active[j].gpr)
  <2>1. active[j].vreg \in DOMAIN map /\ map[active[j].vreg] = Reg(active[j].gpr)
    BY DEF IInv, PoolPartition
  <2>2. last[active[j].vreg] >= first[cur]
    BY <1>1 DEF IInv, SweepInv
  <2>3. active[j].vreg \in DOMAIN first /\ first[active[j].vreg] <= n
    BY <1>1, <2>1
  <2>4. active[j].vreg \in LiveAt(n)
    BY <1>1, <1>3, <2>2, <2>3, CoveredIsLive
  <2> QED
    BY <1>1, <2>1, <2>4
<1> HIDE DEF n
<1>6. f \in [1..N -> LiveAt(n)]
  BY <1>1, <1>4, <1>5
<1>7. ASSUME NEW a \in 1..N, NEW b \in 1..N, f[a] = f[b] PROVE a = b
  <2>1. CASE a = N \/ b = N
    BY <1>1, <1>5, <1>7, <2>1
  <2>2. CASE a # N /\ b # N
    <3>1. a \in 1..Len(active) /\ b \in 1..Len(active)
      BY <1>1, <2>2
    <3>2. active[a].vreg = active[b].vreg
      BY <1>7, <2>2
    <3>3. active[a].gpr = active[b].gpr
      BY <1>5, <3>1, <3>2, LocationFacts
    <3> QED
      BY <3>1, <3>3 DEF IInv, PoolPartition
  <2> QED
    BY <2>1, <2>2
<1>8. f \in Injection(1..N, LiveAt(n))
  BY <1>6, <1>7 DEF Injection, IsInjective
<1>9. IsFiniteSet(LiveAt(n))
  <2>1. LiveAt(n) \subseteq DOMAIN first
    BY <1>3, LiveAreScanned
  <2> QED
    BY <2>1, FS_Subset
<1>10. Cardinality(1..N) <= Cardinality(LiveAt(n))
  BY <1>8, <1>9, FS_Injection
<1>11. N \in Nat /\ Cardinality(1..N) = N
  BY <1>1, FS_Interval
<1>12. Cardinality(LiveAt(n)) \in Nat
  BY <1>9, FS_CardinalityType
<1>13. Cardinality(LiveAt(n)) >= N
  BY <1>10, <1>11, <1>12
<1> QED
  BY <1>3, <1>13

-----------------------------------------------------------------------------
(* The pressure of a block does not change while it is allocated.          *)
LEMMA SameBlock ==
  ASSUME UNCHANGED block
  PROVE  /\ \A n : LiveAt(n)' = LiveAt(n)
         /\ \A m : Peak(m)' = Peak(m)
BY DEF LiveAt, Peak

(* An empty pass has needed no register.                                   *)
LEMMA PressureInit == Init => PressureInv
<1> SUFFICES ASSUME Init PROVE PressureInv
  OBVIOUS
<1>1. IsFiniteSet(DOMAIN first) /\ DOMAIN map = {}
  BY FS_EmptySet DEF Init, EmptyMap
<1>2. SpillOnlyUnderPressure
  BY DEF Init, SpillOnlyUnderPressure
<1>3. Len(HostGprs) \in Nat
  BY PoolAssumption, LenProperties
<1>4. /\ 0 \in 0..Len(HostGprs) /\ Peak(0) /\ Len(active) <= 0
      /\ \A p \in 1..(Len(HostGprs) - 0) :
           /\ free[p] = HostGprs[p]
           /\ \A v \in DOMAIN map : map[v] # Reg(HostGprs[p])
  BY <1>1, <1>3, EmptySeq DEF Init, Peak
<1> QED
  BY <1>1, <1>2, <1>4 DEF PressureInv

(* Steps that place and free nothing.                                      *)
LEMMA PressureStays ==
  ASSUME IInv, PressureInv, UNCHANGED <<block, active, free, map, next_spill>>,
         IsFiniteSet(DOMAIN first')
  PROVE  PressureInv'
<1>1. SpillOnlyUnderPressure'
  BY SameBlock DEF PressureInv, SpillOnlyUnderPressure
<1>2. PICK m \in 0..Len(HostGprs) :
        /\ Peak(m)
        /\ Len(active) <= m
        /\ \A p \in 1..(Len(HostGprs) - m) :
             /\ free[p] = HostGprs[p]
             /\ \A v \in DOMAIN map : map[v] # Reg(HostGprs[p])
  BY DEF PressureInv
<1>3. /\ Peak(m)'
      /\ Len(active') <= m
      /\ \A p \in 1..(Len(HostGprs) - m) :
           /\ free'[p] = HostGprs[p]
           /\ \A v \in DOMAIN map' : map'[v] # Reg(HostGprs[p])
  BY <1>2, SameBlock
<1> QED
  BY <1>1, <1>3 DEF PressureInv

(* The scanned op adds finitely many vregs.                                *)
LEMMA PressureScan == IInv /\ PressureInv /\ ScanOp => PressureInv'
<1> SUFFICES ASSUME IInv, PressureInv, ScanOp PROVE PressureInv'
  OBVIOUS
<1>1. block \in Seq(Op) /\ i \in 1..Len(block)
  BY DEF ScanOp, IInv, TypeOK
<1>2. block[i] \in Op
  BY <1>1, ElementOfSeq
<1>3. IsFiniteSet(Touched(block[i]))
  BY <1>2, TouchedFinite
<1>4. DOMAIN first' = DOMAIN first \cup Touched(block[i])
  BY DEF ScanOp
<1>5. IsFiniteSet(DOMAIN first')
  BY <1>3, <1>4, FS_Union DEF PressureInv
<1>6. UNCHANGED <<block, active, free, map, next_spill>>
  BY DEF ScanOp
<1> QED
  BY <1>5, <1>6, PressureStays

(* A returned register goes on top.                                        *)
LEMMA PressureExpire == IInv /\ PressureInv /\ Expire => PressureInv'
<1> SUFFICES ASSUME IInv, PressureInv, Expire PROVE PressureInv'
  OBVIOUS
<1>1. /\ UNCHANGED <<block, first, map, next_spill>>
      /\ free' = Append(free, active[k].gpr)
      /\ active' = RemoveAt(active, k) /\ k \in 1..Len(active)
  BY DEF Expire, IInv, TypeOK
<1>2. SpillOnlyUnderPressure'
  BY <1>1, SameBlock DEF PressureInv, SpillOnlyUnderPressure
<1>3. PICK m \in 0..Len(HostGprs) :
        /\ Peak(m)
        /\ Len(active) <= m
        /\ \A p \in 1..(Len(HostGprs) - m) :
             /\ free[p] = HostGprs[p]
             /\ \A v \in DOMAIN map : map[v] # Reg(HostGprs[p])
  BY DEF PressureInv
<1>4. /\ active \in Seq([vreg : VReg, gpr : HostGpr])
      /\ free \in Seq(HostGpr)
      /\ Len(active) \in Nat /\ Len(free) \in Nat /\ Len(HostGprs) \in Nat
      /\ Len(free) + Len(active) = Len(HostGprs)
  BY PoolAssumption, LenProperties DEF IInv, TypeOK, PoolPartition
<1>5. active[k].gpr \in HostGpr
  <2>1. active[k] \in [vreg : VReg, gpr : HostGpr]
    BY <1>1, <1>4, ElementOfSeq
  <2> QED
    BY <2>1
<1>6. Len(active') <= m
  <2>1. Len(active') = Len(active) - 1
    BY <1>1, <1>4, RemoveAtFacts
  <2> QED
    BY <1>3, <1>4, <2>1
<1>7. \A p \in 1..Len(free) : free'[p] = free[p]
  BY <1>1, <1>4, <1>5, AppendProperties
<1>8. ASSUME NEW p \in 1..(Len(HostGprs) - m)
      PROVE  /\ free'[p] = HostGprs[p]
             /\ \A v \in DOMAIN map' : map'[v] # Reg(HostGprs[p])
  <2>1. p \in 1..Len(free)
    BY <1>3, <1>4
  <2> QED
    BY <1>1, <1>3, <1>7, <2>1
<1>9. Peak(m)' /\ IsFiniteSet(DOMAIN first')
  BY <1>1, <1>3, SameBlock DEF PressureInv
<1> QED
  BY <1>2, <1>6, <1>8, <1>9 DEF PressureInv

(* Popping below the highest number of active intervals raises it.         *)
LEMMA PressurePlaceInFree == IInv /\ PressureInv /\ PlaceInFree => PressureInv'
<1> SUFFICES ASSUME IInv, PressureInv, PlaceInFree PROVE PressureInv'
  OBVIOUS
<1> DEFINE g == free[Len(free)]
<1>1. /\ UNCHANGED <<block, first, next_spill>>
      /\ pc = "place" /\ free # <<>> /\ free' = Front(free)
      /\ active' = Append(active, [vreg |-> cur, gpr |-> Last(free)])
      /\ map' = [v \in DOMAIN map \cup {cur} |->
                   IF v = cur THEN Reg(Last(free)) ELSE map[v]]
  BY DEF PlaceInFree
<1>2. SpillOnlyUnderPressure'
  BY <1>1, SameBlock DEF PressureInv, SpillOnlyUnderPressure
<1>3. PICK m \in 0..Len(HostGprs) :
        /\ Peak(m)
        /\ Len(active) <= m
        /\ \A p \in 1..(Len(HostGprs) - m) :
             /\ free[p] = HostGprs[p]
             /\ \A v \in DOMAIN map : map[v] # Reg(HostGprs[p])
  BY DEF PressureInv
<1>4. /\ active \in Seq([vreg : VReg, gpr : HostGpr])
      /\ free \in Seq(HostGpr) /\ cur \in VReg
      /\ Len(active) \in Nat /\ Len(free) \in Nat /\ Len(HostGprs) \in Nat
      /\ Len(free) + Len(active) = Len(HostGprs)
      /\ \A j, n \in 1..Len(free) : free[j] = free[n] => j = n
  BY <1>1, CurrentFacts, PoolAssumption, LenProperties DEF IInv, TypeOK, PoolPartition
<1>5. /\ Len(free) > 0 /\ Last(free) = g /\ g \in HostGpr
      /\ \A p \in 1..(Len(free) - 1) : free'[p] = free[p]
  BY <1>1, <1>4, PopFacts
<1>6. Len(active') = Len(active) + 1
  <2>1. [vreg |-> cur, gpr |-> Last(free)] \in [vreg : VReg, gpr : HostGpr]
    BY <1>4, <1>5
  <2> QED
    BY <1>1, <1>4, <2>1, AppendProperties
<1>7. IsFiniteSet(DOMAIN first')
  BY <1>1 DEF PressureInv
<1>m. PICK M : M = IF Len(active) = m THEN m + 1 ELSE m
  OBVIOUS
<1>8. /\ M \in 0..Len(HostGprs) /\ Len(active') <= M
      /\ Len(HostGprs) - M < Len(free)
      /\ Len(HostGprs) - M <= Len(HostGprs) - m
  BY <1>3, <1>4, <1>5, <1>6, <1>m
<1>9. Peak(M)'
  <2>1. CASE Len(active) = m
    <3>1. \E n \in 1..Len(block) : Cardinality(LiveAt(n)) >= Len(active) + 1
      BY <1>1, ActiveAreLive DEF PressureInv
    <3>2. Peak(M)
      BY <1>m, <2>1, <3>1 DEF Peak
    <3> QED
      BY <1>1, <3>2, SameBlock
  <2>2. CASE Len(active) # m
    BY <1>1, <1>3, <1>m, <2>2, SameBlock
  <2> QED
    BY <2>1, <2>2
<1> HIDE DEF g
<1>10. ASSUME NEW p \in 1..(Len(HostGprs) - M)
       PROVE  /\ free'[p] = HostGprs[p]
              /\ \A v \in DOMAIN map' : map'[v] # Reg(HostGprs[p])
  <2>1. p \in 1..(Len(HostGprs) - m) /\ p \in 1..(Len(free) - 1)
    BY <1>3, <1>4, <1>8
  <2>2. free'[p] = HostGprs[p] /\ free[p] = HostGprs[p]
    BY <1>3, <1>5, <2>1
  <2>3. g # HostGprs[p]
    <3>1. p \in 1..Len(free) /\ Len(free) \in 1..Len(free) /\ p # Len(free)
      BY <1>4, <1>5, <2>1
    <3> QED
      BY <1>4, <2>2, <3>1 DEF g
  <2>4. \A v \in DOMAIN map : map[v] # Reg(HostGprs[p])
    BY <1>3, <2>1
  <2>5. Reg(g) # Reg(HostGprs[p])
    BY <2>3, LocationFacts
  <2> QED
    BY <1>1, <1>5, <2>2, <2>4, <2>5
<1> QED
  BY <1>2, <1>7, <1>8, <1>9, <1>10 DEF PressureInv

(* Nothing is free: every register is held by an active interval.          *)
LEMMA PressureSpill == IInv /\ PressureInv /\ PlaceBySpilling => PressureInv'
<1> SUFFICES ASSUME IInv, PressureInv, PlaceBySpilling PROVE PressureInv'
  OBVIOUS
<1>1. /\ UNCHANGED <<block, first, free>> /\ pc = "place" /\ free = <<>>
  BY DEF PlaceBySpilling
<1>2. PICK n \in 1..Len(active) :
        active' = Append(SwapRemove(active, n),
                         [vreg |-> cur, gpr |-> active[n].gpr])
  BY DEF PlaceBySpilling
<1>3. /\ active \in Seq([vreg : VReg, gpr : HostGpr]) /\ cur \in VReg
      /\ Len(active) \in Nat /\ Len(HostGprs) \in Nat
      /\ Len(active) = Len(HostGprs)
  BY <1>1, CurrentFacts, PoolAssumption, LenProperties, EmptySeq
  DEF IInv, TypeOK, PoolPartition
<1>4. \E a \in 1..Len(block) : Cardinality(LiveAt(a)) >= Len(HostGprs) + 1
  BY <1>1, <1>3, ActiveAreLive DEF PressureInv
<1>5. PICK a \in 1..Len(block) : Cardinality(LiveAt(a)) >= Len(HostGprs) + 1
  BY <1>4
<1>6. Cardinality(LiveAt(a)) \in Nat
  <2>1. LiveAt(a) \subseteq DOMAIN first
    BY <1>1, LiveAreScanned
  <2> QED
    BY <2>1, FS_Subset, FS_CardinalityType DEF PressureInv
<1>7. Peak(Len(HostGprs)) /\ Cardinality(LiveAt(a)) > Len(HostGprs)
  BY <1>3, <1>5, <1>6 DEF Peak
<1>8. SpillOnlyUnderPressure' /\ Peak(Len(HostGprs))'
  BY <1>1, <1>7, SameBlock DEF SpillOnlyUnderPressure
<1>9. Len(active') = Len(active)
  <2>1. [vreg |-> cur, gpr |-> active[n].gpr] \in [vreg : VReg, gpr : HostGpr]
    BY <1>1, <1>3, CurrentFacts
  <2>2. /\ SwapRemove(active, n) \in Seq([vreg : VReg, gpr : HostGpr])
        /\ Len(SwapRemove(active, n)) = Len(active) - 1
    BY <1>3, SwapRemoveFacts
  <2> QED
    BY <1>2, <1>3, <2>1, <2>2, AppendProperties
<1>10. /\ Len(HostGprs) \in 0..Len(HostGprs)
       /\ Len(active') <= Len(HostGprs)
       /\ 1..(Len(HostGprs) - Len(HostGprs)) = {}
  BY <1>3, <1>9
<1>11. IsFiniteSet(DOMAIN first')
  BY <1>1 DEF PressureInv
<1> QED
  BY <1>8, <1>10, <1>11 DEF PressureInv

(* Every step of linear_scan preserves the pressure invariant.             *)
LEMMA PressureNext == IInv /\ PressureInv /\ [Next]_vars => PressureInv'
<1> SUFFICES ASSUME IInv, PressureInv, [Next]_vars PROVE PressureInv'
  OBVIOUS
<1>1. CASE \/ CollectIntervals \/ NextInterval \/ Retain \/ Swept \/ Finish
           \/ Returned \/ UNCHANGED vars
  <2>1. UNCHANGED <<block, first, active, free, map, next_spill>>
    BY <1>1 DEF CollectIntervals, NextInterval, Retain, Swept, Finish, Returned, vars
  <2> QED
    BY <2>1, PressureStays DEF PressureInv
<1> QED
  BY <1>1, PressureScan, PressureExpire, PressurePlaceInFree, PressureSpill DEF Next

-----------------------------------------------------------------------------
(* The bottom of the free stack is untouched below the highest pressure.   *)
THEOREM PressureInvHolds == Spec => [](IInv /\ PressureInv)
BY InitIInv, NextIInv, PressureInit, PressureNext, PTL DEF Spec

(* A value is spilled only in a block in which more values are live at one *)
(* op than the pool has registers.                                         *)
THEOREM SpillsOnlyUnderPressure == Spec => []SpillOnlyUnderPressure
<1>1. PressureInv => SpillOnlyUnderPressure
  BY DEF PressureInv
<1> QED
  BY <1>1, PressureInvHolds, PTL

(* A register that has been given away was above the untouched bottom.     *)
LEMMA PressureImpliesScarce == IInv /\ PressureInv => ScarceRegistersLast
<1> SUFFICES ASSUME IInv, PressureInv, NEW j \in 1..Len(HostGprs),
                    NEW v \in DOMAIN map, map[v] = Reg(HostGprs[j])
             PROVE  \E n \in 1..Len(block) :
                      Cardinality(LiveAt(n)) >= Len(HostGprs) - j + 1
  BY DEF ScarceRegistersLast
<1>1. PICK m \in 0..Len(HostGprs) :
        /\ Peak(m)
        /\ \A p \in 1..(Len(HostGprs) - m) :
             \A u \in DOMAIN map : map[u] # Reg(HostGprs[p])
  BY DEF PressureInv
<1>2. Len(HostGprs) \in Nat
  BY PoolAssumption, LenProperties
<1>3. ~(j \in 1..(Len(HostGprs) - m))
  BY <1>1
<1>4. m > 0 /\ Len(HostGprs) - j + 1 <= m
  BY <1>2, <1>3
<1>5. PICK n \in 1..Len(block) : Cardinality(LiveAt(n)) >= m
  BY <1>1, <1>4 DEF Peak
<1>6. pc # "scan"
  BY DEF IInv, ScanInv, EmptyMap
<1>7. LiveAt(n) \subseteq DOMAIN first
  BY <1>6, LiveAreScanned
<1>8. Cardinality(LiveAt(n)) \in Nat
  BY <1>7, FS_Subset, FS_CardinalityType DEF PressureInv
<1>9. Cardinality(LiveAt(n)) >= Len(HostGprs) - j + 1
  BY <1>2, <1>4, <1>5, <1>8
<1> QED
  BY <1>9

(* The registers at the bottom of the pool, the emitter's scratch          *)
(* registers among them, are given only to values of blocks whose pressure *)
(* demands it.                                                             *)
THEOREM ScratchIsLastResort == Spec => []ScarceRegistersLast
BY PressureInvHolds, PressureImpliesScarce, PTL

-----------------------------------------------------------------------------
(* The spill area.                                                         *)

Spilled == {v \in DOMAIN map : map[v].kind = "Spill"}

(* Finitely many vregs have a place.                                       *)
LEMMA PlacedFinite ==
  ASSUME IInv, PressureInv
  PROVE  IsFiniteSet(DOMAIN map) /\ IsFiniteSet(Spilled)
<1>1. CASE pc = "scan"
  <2>1. DOMAIN map = {}
    BY <1>1 DEF IInv, ScanInv, EmptyMap
  <2> QED
    BY <2>1, FS_EmptySet, FS_Subset DEF Spilled
<1>2. CASE pc # "scan"
  <2>1. DOMAIN map \subseteq DOMAIN first
    BY <1>2 DEF IInv, OrderInv
  <2>2. IsFiniteSet(DOMAIN map)
    BY <2>1, FS_Subset DEF PressureInv
  <2> QED
    BY <2>2, FS_Subset DEF Spilled
<1> QED
  BY <1>1, <1>2

(* When no register is free, as many vregs as there are registers have a   *)
(* place: the active ones, which hold distinct registers.                  *)
LEMMA ActiveArePlaced ==
  ASSUME IInv, PressureInv, pc = "place", free = <<>>
  PROVE  Cardinality(DOMAIN map) >= Len(HostGprs)
<1> DEFINE N == Len(active)
           f == [j \in 1..N |-> active[j].vreg]
<1>1. N \in Nat /\ N = Len(HostGprs)
  BY CurrentFacts, PoolAssumption, LenProperties, EmptySeq DEF IInv, PoolPartition
<1>2. \A j \in 1..N :
        active[j].vreg \in DOMAIN map /\ map[active[j].vreg] = Reg(active[j].gpr)
  BY DEF IInv, PoolPartition
<1>3. ASSUME NEW a \in 1..N, NEW b \in 1..N, f[a] = f[b] PROVE a = b
  <2>1. active[a].gpr = active[b].gpr
    BY <1>2, <1>3, LocationFacts
  <2> QED
    BY <2>1 DEF IInv, PoolPartition
<1>4. f \in Injection(1..N, DOMAIN map)
  BY <1>2, <1>3 DEF Injection, IsInjective
<1>5. Cardinality(1..N) <= Cardinality(DOMAIN map)
  BY <1>4, PlacedFinite, FS_Injection
<1> HIDE DEF N, f
<1>6. Cardinality(1..N) = N
  <2>1. 1 \in Int /\ N \in Int
    BY <1>1
  <2>2. Cardinality(1..N) = IF 1 > N THEN 0 ELSE N - 1 + 1
    BY <2>1, FS_Interval, Zenon
  <2> QED
    BY <1>1, <2>2
<1>7. Cardinality(DOMAIN map) \in Nat
  BY PlacedFinite, FS_CardinalityType
<1> QED
  BY <1>1, <1>5, <1>6, <1>7

(* A value placed in a register takes nothing from the budget.             *)
LEMMA BudgetPlaceInFree ==
  IInv /\ PressureInv /\ SpillBudget /\ PlaceInFree => SpillBudget'
<1> SUFFICES ASSUME IInv, PressureInv, SpillBudget, PlaceInFree PROVE SpillBudget'
  OBVIOUS
<1> DEFINE place == Reg(Last(free))
<1>1. /\ map' = [v \in DOMAIN map \cup {cur} |-> IF v = cur THEN place ELSE map[v]]
      /\ next_spill' = next_spill /\ pc = "place"
  BY DEF PlaceInFree
<1>2. cur \notin DOMAIN map
  BY <1>1, CurrentFacts
<1>3. place.kind # "Spill"
  BY DEF Reg
<1> HIDE DEF place
<1>4. /\ DOMAIN map' = DOMAIN map \cup {cur} /\ Spilled' = Spilled
      /\ \A v \in Spilled : map'[v] = map[v]
  BY <1>1, <1>2, <1>3 DEF Spilled
<1>5. /\ Cardinality(DOMAIN map') = Cardinality(DOMAIN map) + 1
      /\ Cardinality(DOMAIN map) \in Nat /\ Cardinality(Spilled) \in Nat
  BY <1>2, <1>4, PlacedFinite, FS_AddElement, FS_CardinalityType
<1>6. Len(HostGprs) \in Nat
  BY PoolAssumption, LenProperties
<1>7. /\ next_spill = SlotBytes * Cardinality(Spilled)
      /\ next_spill > 0 =>
           next_spill <= SlotBytes * (Cardinality(DOMAIN map) - Len(HostGprs))
      /\ \A v \in Spilled : map[v].offset < next_spill
  BY DEF SpillBudget, Spilled
<1>8. /\ next_spill' = SlotBytes * Cardinality(Spilled')
      /\ next_spill' > 0 =>
           next_spill' <= SlotBytes * (Cardinality(DOMAIN map') - Len(HostGprs))
  BY <1>1, <1>4, <1>5, <1>6, <1>7 DEF SlotBytes
<1>9. \A v \in Spilled' : map'[v].offset < next_spill'
  BY <1>1, <1>4, <1>7
<1> QED
  BY <1>8, <1>9 DEF SpillBudget, Spilled

(* An eviction takes one slot, and places one value more.                  *)
LEMMA BudgetSpill ==
  IInv /\ PressureInv /\ SpillBudget /\ PlaceBySpilling => SpillBudget'
<1> SUFFICES ASSUME IInv, PressureInv, SpillBudget, PlaceBySpilling
             PROVE  SpillBudget'
  OBVIOUS
<1>1. pc = "place" /\ free = <<>> /\ next_spill' = next_spill + SlotBytes
  BY DEF PlaceBySpilling
<1>2. PICK n \in 1..Len(active) :
        map' = [v \in DOMAIN map \cup {cur} |->
                  IF v = cur THEN Reg(active[n].gpr)
                  ELSE IF v = active[n].vreg THEN Spill(next_spill)
                  ELSE map[v]]
  BY DEF PlaceBySpilling
<1> DEFINE w == active[n].vreg
<1>3. cur \notin DOMAIN map /\ next_spill \in Nat
  BY <1>1, CurrentFacts DEF IInv, TypeOK
<1>4. w \in DOMAIN map /\ map[w] = Reg(active[n].gpr)
  BY DEF IInv, PoolPartition
<1>5. w \notin Spilled
  BY <1>4 DEF Spilled, Reg
<1>6. /\ DOMAIN map' = DOMAIN map \cup {cur}
      /\ map'[cur].kind # "Spill"
      /\ map'[w] = Spill(next_spill) /\ w # cur
      /\ \A v \in DOMAIN map : v # w => map'[v] = map[v]
  BY <1>2, <1>3, <1>4 DEF Reg
<1> HIDE DEF w
<1>7. Spilled' = Spilled \cup {w}
  BY <1>4, <1>6 DEF Spilled, Spill
<1>8. /\ Cardinality(DOMAIN map') = Cardinality(DOMAIN map) + 1
      /\ Cardinality(Spilled') = Cardinality(Spilled) + 1
      /\ Cardinality(DOMAIN map) \in Nat /\ Cardinality(Spilled) \in Nat
  BY <1>3, <1>5, <1>6, <1>7, PlacedFinite, FS_AddElement, FS_CardinalityType
<1>9. /\ Len(HostGprs) \in Nat
      /\ Cardinality(DOMAIN map) >= Len(HostGprs)
  BY <1>1, PoolAssumption, LenProperties, ActiveArePlaced
<1>10. /\ next_spill = SlotBytes * Cardinality(Spilled)
       /\ next_spill > 0 =>
            next_spill <= SlotBytes * (Cardinality(DOMAIN map) - Len(HostGprs))
       /\ \A v \in Spilled : map[v].offset < next_spill
  BY DEF SpillBudget, Spilled
<1>11. /\ next_spill' = SlotBytes * Cardinality(Spilled')
       /\ next_spill' <= SlotBytes * (Cardinality(DOMAIN map') - Len(HostGprs))
  <2> DEFINE c == Cardinality(DOMAIN map)
             e == Cardinality(Spilled)
             n0 == Len(HostGprs)
  <2>1. c \in Nat /\ e \in Nat /\ n0 \in Nat /\ n0 <= c
    BY <1>8, <1>9
  <2>2. next_spill = 8 * e /\ (next_spill > 0 => next_spill <= 8 * (c - n0))
    BY <1>10 DEF SlotBytes
  <2>3. next_spill' = next_spill + 8
    BY <1>1 DEF SlotBytes
  <2> HIDE DEF c, e, n0
  <2>4. next_spill + 8 = 8 * (e + 1) /\ next_spill + 8 <= 8 * ((c + 1) - n0)
    BY <1>3, <2>1, <2>2
  <2> QED
    BY <1>8, <2>3, <2>4 DEF SlotBytes, c, e, n0
<1>12. ASSUME NEW v \in Spilled' PROVE map'[v].offset < next_spill'
  <2>1. CASE v = w
    BY <1>1, <1>3, <1>6, <2>1 DEF Spill, SlotBytes
  <2>2. CASE v # w
    <3>1. v \in Spilled /\ map'[v] = map[v] /\ map[v].offset < next_spill
      BY <1>6, <1>7, <1>10, <2>2 DEF Spilled
    <3>2. map[v].offset \in Nat
      <4>1. map[v] \in Location /\ map[v].kind = "Spill"
        BY <3>1 DEF IInv, TypeOK, PartialFunction, Spilled
      <4> QED
        BY <4>1 DEF Location
    <3> QED
      BY <1>1, <1>3, <3>1, <3>2 DEF SlotBytes
  <2> QED
    BY <2>1, <2>2
<1> QED
  BY <1>11, <1>12 DEF SpillBudget, Spilled

LEMMA BudgetInit == Init => SpillBudget
<1> SUFFICES ASSUME Init PROVE SpillBudget
  OBVIOUS
<1>1. DOMAIN map = {} /\ next_spill = 0
  BY DEF Init, EmptyMap
<1>2. {v \in DOMAIN map : map[v].kind = "Spill"} = {}
  BY <1>1
<1> QED
  BY <1>1, <1>2, FS_EmptySet DEF SpillBudget, SlotBytes

(* Nothing else touches it.                                                *)
LEMMA BudgetNext == IInv /\ PressureInv /\ SpillBudget /\ [Next]_vars => SpillBudget'
<1> SUFFICES ASSUME IInv, PressureInv, SpillBudget, [Next]_vars PROVE SpillBudget'
  OBVIOUS
<1>1. CASE \/ ScanOp \/ CollectIntervals \/ NextInterval \/ Expire \/ Retain
           \/ Swept \/ Finish \/ Returned \/ UNCHANGED vars
  <2>1. UNCHANGED <<map, next_spill>>
    BY <1>1 DEF ScanOp, CollectIntervals, NextInterval, Expire, Retain, Swept,
                Finish, Returned, vars
  <2> QED
    BY <2>1 DEF SpillBudget
<1> QED
  BY <1>1, BudgetPlaceInFree, BudgetSpill DEF Next

(* The spill area holds one slot per evicted interval, slots are never     *)
(* reused, and values beyond the size of the pool alone take one.          *)
THEOREM SpillAreaIsBounded == Spec => []SpillBudget
<1>1. Init => SpillBudget
  BY BudgetInit
<1> QED
  BY <1>1, BudgetNext, PressureInvHolds, PTL DEF Spec

-----------------------------------------------------------------------------
(* Places.                                                                 *)

(* Registers, slots and parking slots are distinct places.                 *)
LEMMA PlaceFacts ==
  /\ \A r, s : Reg(r) = Reg(s) => r = s
  /\ \A r, w : Reg(r) # Tmp(w)
  /\ Tmp(0) # Tmp(1)
  /\ \A l \in Location : \A w : l # Tmp(w)
  /\ \A l \in Location : l.kind = "Reg" => l = Reg(l.gpr)
  /\ \A l \in Location : \A r : l.kind # "Reg" => l # Reg(r)
BY DEF Reg, Tmp, Location

(* Writing a place changes that place only.                                *)
LEMMA GetPut ==
  \A h, l, x, p : Get(Put(h, l, x), p) = IF p = l THEN x ELSE Get(h, p)
BY DEF Get, Put

(* So does a move.                                                         *)
LEMMA GetMove ==
  \A h, from, to, p :
    Get(Move(h, from, to), p) = IF p = to THEN Get(h, from) ELSE Get(h, p)
BY GetPut DEF Move

(* park(), unpark() and commit_dst() as moves.                             *)
LEMMA GetPark ==
  \A h, r, w, p :
    /\ Get(park(h, r, w), p) = IF p = Tmp(w) THEN Get(h, Reg(r)) ELSE Get(h, p)
    /\ Get(unpark(h, r, w), p) = IF p = Reg(r) THEN Get(h, Tmp(w)) ELSE Get(h, p)
BY GetMove DEF park, unpark

(* What a place holds that an operand is materialized from.                *)
Readable(h, x) == x \notin Imm => Get(h, Loc(x)) = x

(* materialize() of a readable operand.                                    *)
LEMMA GetMaterialize ==
  \A h, x, r, p :
    Readable(h, x) =>
      Get(materialize(h, x, r), p) = IF p = Reg(r) THEN x ELSE Get(h, p)
BY GetPut, GetMove DEF materialize, Readable

(* commit_dst() writes the place of the destination, if there is one.      *)
LEMMA GetCommit ==
  \A h, op, r, p :
    Get(commit_dst(h, op, r), p) =
      IF op.dst # NoReg /\ p = Loc(op.dst) THEN Get(h, Reg(r)) ELSE Get(h, p)
BY GetMove DEF commit_dst

(* The scratch register is not the destination.                            *)
LEMMA ScratchFacts ==
  \A d : scratch_not(d) # d /\ scratch_not(d) \in {RAX, RCX}
BY RegisterAssumption DEF scratch_not

-----------------------------------------------------------------------------
(* Before and after the code of one op.                                    *)

Untouched(op, l) == l \in Location /\ \A r \in Clobbered(op) : l # Reg(r)

(* The operands are in place, and neither they nor the destination are in  *)
(* registers that the code clobbers.                                       *)
Ready(op) ==
  /\ \A j \in 1..Len(op.args) :
       /\ Readable(host, op.args[j])
       /\ op.args[j] \notin Imm => Untouched(op, Loc(op.args[j]))
       /\ op.args[j] \notin Imm /\ op.dst # NoReg => Loc(op.args[j]) # Loc(op.dst)
  /\ op.dst # NoReg => Untouched(op, Loc(op.dst))

(* The operands have been read, the destination holds the result, and all  *)
(* that may be live is as it was.                                          *)
Computed(op, h, read) ==
  /\ read = op.args
  /\ op.dst # NoReg => Get(h, Loc(op.dst)) = op.dst
  /\ \A l : Untouched(op, l) /\ (op.dst # NoReg => l # Loc(op.dst))
              => Get(h, l) = Get(host, l)

(* An op as emit_op takes it.                                              *)
Shape(op) ==
  /\ op \in Op
  /\ Len(op.args) = Arity(op.kind)
  /\ op.dst # NoReg <=> HasDst(op.kind)

(* The operands of an op, by their number.                                 *)
LEMMA ArgsByNumber ==
  ASSUME NEW op, Shape(op)
  PROVE  /\ Len(op.args) = 0 => op.args = <<>>
         /\ Len(op.args) = 1 => op.args = <<op.args[1]>>
         /\ Len(op.args) = 2 => op.args = <<op.args[1], op.args[2]>>
         /\ Len(op.args) = 3 => op.args = <<op.args[1], op.args[2], op.args[3]>>
<1>1. op.args \in Seq(VReg \cup Imm)
  BY DEF Shape, Op
<1> QED
  BY <1>1

(* Where an op with a result computes: in the place of its destination, or *)
(* in RAX, which then no live value may be in.                             *)
LEMMA DestFacts ==
  ASSUME NEW op, Shape(op), Ready(op), op.dst # NoReg
  PROVE  \A l : Untouched(op, l) /\ l # Loc(op.dst) => l # Reg(dest_reg(op))
<1>1. Loc(op.dst) \in Location
  BY DEF Ready, Untouched
<1>2. CASE InReg(op)
  <2>1. Loc(op.dst) = Reg(dest_reg(op))
    BY <1>1, <1>2, PlaceFacts DEF InReg, dest_reg
  <2> QED
    BY <2>1
<1>3. CASE ~InReg(op)
  <2>1. dest_reg(op) = RAX
    BY <1>3 DEF dest_reg
  <2>2. RAX \in Clobbered(op)
    BY <1>3 DEF Clobbered, Shape, HasDst
  <2> QED
    BY <2>1, <2>2 DEF Untouched
<1> QED
  BY <1>2, <1>3
(* The end of the code of an op with a result.                             *)
LEMMA CommitComputes ==
  ASSUME NEW op, op.dst # NoReg, NEW h,
         Get(h, Reg(dest_reg(op))) = op.dst,
         \A l : Untouched(op, l) /\ l # Loc(op.dst) => Get(h, l) = Get(host, l)
  PROVE  Computed(op, commit_dst(h, op, dest_reg(op)), op.args)
BY GetCommit DEF Computed

-----------------------------------------------------------------------------
(* The code of each op.                                                    *)

(* An ALU op through a parked scratch register.                            *)
LEMMA ByScratchComputes ==
  ASSUME NEW op, Shape(op), Ready(op), op.kind \in {"binop", "mul"}, ByScratch(op)
  PROVE  \E h, read : Retire(h, read) /\ Computed(op, h, read)
<1> DEFINE d    == dest_reg(op)
           s    == scratch_not(d)
           x    == op.args[1]
           y    == op.args[2]
           h1   == materialize(host, x, d)
           h2   == park(h1, s, 0)
           h3   == materialize(h2, y, s)
           read == <<Get(h3, Reg(d)), Get(h3, Reg(s))>>
           h4   == Put(h3, Reg(d), Result(op, read))
           h5   == unpark(h4, s, 0)
<1>1. Retire(commit_dst(h5, op, d), read)
  BY DEF ByScratch
<1>2. /\ Len(op.args) = 2 /\ op.args = <<x, y>> /\ op.dst # NoReg
      /\ s # d
      /\ \A l : Untouched(op, l) /\ l # Loc(op.dst) => l # Reg(d) /\ l # Tmp(0)
  BY ArgsByNumber, ScratchFacts, DestFacts, PlaceFacts
  DEF Shape, Arity, HasDst, Untouched
<1>3. /\ Readable(host, x) /\ Readable(host, y)
      /\ y \notin Imm => Untouched(op, Loc(y)) /\ Loc(y) # Loc(op.dst)
  BY <1>2 DEF Ready
<1> HIDE DEF d, s, x, y
<1>4. \A p : Get(h1, p) = IF p = Reg(d) THEN x ELSE Get(host, p)
  BY <1>3, GetMaterialize
<1> HIDE DEF h1
<1>5. \A p : Get(h2, p) = IF p = Tmp(0) THEN Get(h1, Reg(s)) ELSE Get(h1, p)
  BY GetPark
<1> HIDE DEF h2
<1>6. Readable(h2, y)
  BY <1>2, <1>3, <1>4, <1>5 DEF Readable
<1>7. \A p : Get(h3, p) = IF p = Reg(s) THEN y ELSE Get(h2, p)
  BY <1>6, GetMaterialize
<1> HIDE DEF h3
<1>8. read = op.args
  BY <1>2, <1>4, <1>5, <1>7, PlaceFacts
<1>9. \A p : Get(h4, p) = IF p = Reg(d) THEN op.dst ELSE Get(h3, p)
  BY <1>8, GetPut DEF Result
<1> HIDE DEF h4, read
<1>10. \A p : Get(h5, p) = IF p = Reg(s) THEN Get(h4, Tmp(0)) ELSE Get(h4, p)
  BY GetPark
<1> HIDE DEF h5
<1>11. Get(h5, Reg(d)) = op.dst
  BY <1>2, <1>9, <1>10, PlaceFacts
<1>12. ASSUME NEW l, Untouched(op, l), l # Loc(op.dst) PROVE Get(h5, l) = Get(host, l)
  <2>1. l # Reg(d) /\ l # Tmp(0)
    BY <1>2, <1>12
  <2>2. CASE l = Reg(s)
    BY <1>2, <1>4, <1>5, <1>7, <1>9, <1>10, <2>1, <2>2, PlaceFacts
  <2>3. CASE l # Reg(s)
    BY <1>4, <1>5, <1>7, <1>9, <1>10, <2>1, <2>3
  <2> QED
    BY <2>2, <2>3
<1>13. Computed(op, commit_dst(h5, op, d), op.args)
  BY <1>2, <1>11, <1>12, CommitComputes DEF d
<1> QED
  BY <1>1, <1>8, <1>13
(* An ALU op or a shift with an immediate.                                 *)
LEMMA ByImmediateComputes ==
  ASSUME NEW op, Shape(op), Ready(op), op.kind \in {"binop", "shift"},
         op.args[2] \in Imm, ByImmediate(op)
  PROVE  \E h, read : Retire(h, read) /\ Computed(op, h, read)
<1> DEFINE d    == dest_reg(op)
           x    == op.args[1]
           h1   == materialize(host, x, d)
           read == <<Get(h1, Reg(d)), op.args[2]>>
           h2   == Put(h1, Reg(d), Result(op, read))
<1>1. Retire(commit_dst(h2, op, d), read)
  BY DEF ByImmediate
<1>2. /\ Len(op.args) = 2 /\ op.args = <<x, op.args[2]>> /\ op.dst # NoReg
      /\ \A l : Untouched(op, l) /\ l # Loc(op.dst) => l # Reg(d)
  BY ArgsByNumber, DestFacts DEF Shape, Arity, HasDst
<1>3. Readable(host, x)
  BY <1>2 DEF Ready
<1> HIDE DEF d, x
<1>4. \A p : Get(h1, p) = IF p = Reg(d) THEN x ELSE Get(host, p)
  BY <1>3, GetMaterialize
<1> HIDE DEF h1
<1>5. read = op.args
  BY <1>2, <1>4
<1>6. \A p : Get(h2, p) = IF p = Reg(d) THEN op.dst ELSE Get(h1, p)
  BY <1>5, GetPut DEF Result
<1> HIDE DEF h2, read
<1>7. Computed(op, commit_dst(h2, op, d), op.args)
  BY <1>2, <1>4, <1>6, CommitComputes DEF d
<1> QED
  BY <1>1, <1>5, <1>7

(* A shift by a register whose result is not in RCX.                       *)
LEMMA ByClComputes ==
  ASSUME NEW op, Shape(op), Ready(op), op.kind = "shift", dest_reg(op) # RCX, ByCl(op)
  PROVE  \E h, read : Retire(h, read) /\ Computed(op, h, read)
<1> DEFINE d    == dest_reg(op)
           x    == op.args[1]
           y    == op.args[2]
           h0   == materialize(host, x, d)
           h1   == park(h0, RCX, 0)
           h3   == materialize(h1, y, RCX)
           read == <<Get(h3, Reg(d)), Get(h3, Reg(RCX))>>
           h4   == Put(h3, Reg(d), Result(op, read))
           h5   == unpark(h4, RCX, 0)
<1>1. Retire(commit_dst(h5, op, d), read)
  BY DEF ByCl
<1>2. /\ Len(op.args) = 2 /\ op.args = <<x, y>> /\ op.dst # NoReg
      /\ \A l : Untouched(op, l) /\ l # Loc(op.dst) => l # Reg(d) /\ l # Tmp(0)
  BY ArgsByNumber, DestFacts, PlaceFacts DEF Shape, Arity, HasDst, Untouched
<1>3. /\ Readable(host, x) /\ Readable(host, y)
      /\ y \notin Imm => Untouched(op, Loc(y)) /\ Loc(y) # Loc(op.dst)
  BY <1>2 DEF Ready
<1>4. Reg(d) # Reg(RCX)
  BY PlaceFacts
<1> HIDE DEF d, x, y
<1>5. \A p : Get(h0, p) = IF p = Reg(d) THEN x ELSE Get(host, p)
  BY <1>3, GetMaterialize
<1> HIDE DEF h0
<1>6. \A p : Get(h1, p) = IF p = Tmp(0) THEN Get(h0, Reg(RCX)) ELSE Get(h0, p)
  BY GetPark
<1> HIDE DEF h1
<1>7. Readable(h1, y)
  BY <1>2, <1>3, <1>5, <1>6 DEF Readable
<1>8. \A p : Get(h3, p) = IF p = Reg(RCX) THEN y ELSE Get(h1, p)
  BY <1>7, GetMaterialize
<1> HIDE DEF h3
<1>9. read = op.args
  BY <1>2, <1>4, <1>5, <1>6, <1>8, PlaceFacts
<1>10. \A p : Get(h4, p) = IF p = Reg(d) THEN op.dst ELSE Get(h3, p)
  BY <1>9, GetPut DEF Result
<1> HIDE DEF h4, read
<1>11. \A p : Get(h5, p) = IF p = Reg(RCX) THEN Get(h4, Tmp(0)) ELSE Get(h4, p)
  BY GetPark
<1> HIDE DEF h5
<1>12. Get(h5, Reg(d)) = op.dst
  BY <1>4, <1>10, <1>11
<1>13. ASSUME NEW l, Untouched(op, l), l # Loc(op.dst) PROVE Get(h5, l) = Get(host, l)
  <2>1. l # Reg(d) /\ l # Tmp(0)
    BY <1>2, <1>13
  <2>2. CASE l = Reg(RCX)
    BY <1>4, <1>5, <1>6, <1>8, <1>10, <1>11, <2>1, <2>2, PlaceFacts
  <2>3. CASE l # Reg(RCX)
    BY <1>5, <1>6, <1>8, <1>10, <1>11, <2>1, <2>3
  <2> QED
    BY <2>2, <2>3
<1>14. Computed(op, commit_dst(h5, op, d), op.args)
  BY <1>2, <1>12, <1>13, CommitComputes DEF d
<1> QED
  BY <1>1, <1>9, <1>14

(* A shift by a register in RCX: the amount is not in RAX, or the code     *)
(* would not be free of clobbering.                                        *)
LEMMA ByClInRcxComputes ==
  ASSUME NEW op, Shape(op), Ready(op), op.kind = "shift", dest_reg(op) = RCX,
         op.args[2] \notin Imm, ByCl(op)
  PROVE  \E h, read : Retire(h, read) /\ Computed(op, h, read)
<1> DEFINE x    == op.args[1]
           y    == op.args[2]
           h0   == materialize(host, x, RCX)
           h1   == park(park(h0, RCX, 0), RAX, 1)
           h2   == Move(h1, Reg(RCX), Reg(RAX))
           h3   == materialize(h2, y, RCX)
           read == <<Get(h3, Reg(RAX)), Get(h3, Reg(RCX))>>
           h4   == Put(h3, Reg(RCX), Result(op, read))
           h5   == unpark(h4, RAX, 1)
<1>1. Retire(commit_dst(h5, op, RCX), read)
  BY DEF ByCl
<1>2. /\ Len(op.args) = 2 /\ op.args = <<x, y>> /\ op.dst # NoReg
      /\ \A l : Untouched(op, l) /\ l # Loc(op.dst) =>
           l # Reg(RCX) /\ l # Tmp(0) /\ l # Tmp(1)
  BY ArgsByNumber, DestFacts, PlaceFacts DEF Shape, Arity, HasDst, Untouched
<1>3. /\ Readable(host, x) /\ Readable(host, y)
      /\ y \notin Imm => Untouched(op, Loc(y)) /\ Loc(y) # Loc(op.dst)
  BY <1>2 DEF Ready
<1>4. Reg(RAX) # Reg(RCX)
  BY PlaceFacts, RegisterAssumption
<1>5. Loc(y) # Reg(RAX)
  <2>1. CASE AmountLost(op)
    BY <1>3, <2>1 DEF Untouched, Clobbered
  <2>2. CASE ~AmountLost(op)
    BY <2>2 DEF AmountLost
  <2> QED
    BY <2>1, <2>2
<1>6. y \notin Imm
  OBVIOUS
<1> HIDE DEF x, y
<1>7. \A p : Get(h0, p) = IF p = Reg(RCX) THEN x ELSE Get(host, p)
  BY <1>3, GetMaterialize
<1> HIDE DEF h0
<1>8. \A p : Get(h1, p) = IF p = Tmp(1) THEN Get(h0, Reg(RAX))
                          ELSE IF p = Tmp(0) THEN Get(h0, Reg(RCX)) ELSE Get(h0, p)
  BY GetPark, PlaceFacts
<1> HIDE DEF h1
<1>9. \A p : Get(h2, p) = IF p = Reg(RAX) THEN Get(h1, Reg(RCX)) ELSE Get(h1, p)
  BY GetMove
<1> HIDE DEF h2
<1>10. Readable(h2, y)
  BY <1>2, <1>3, <1>5, <1>6, <1>7, <1>8, <1>9 DEF Readable
<1>11. \A p : Get(h3, p) = IF p = Reg(RCX) THEN y ELSE Get(h2, p)
  BY <1>10, GetMaterialize
<1> HIDE DEF h3
<1>12. read = op.args
  BY <1>2, <1>4, <1>7, <1>8, <1>9, <1>11, PlaceFacts
<1>13. \A p : Get(h4, p) = IF p = Reg(RCX) THEN op.dst ELSE Get(h3, p)
  BY <1>12, GetPut DEF Result
<1> HIDE DEF h4, read
<1>14. \A p : Get(h5, p) = IF p = Reg(RAX) THEN Get(h4, Tmp(1)) ELSE Get(h4, p)
  BY GetPark
<1> HIDE DEF h5
<1>15. Get(h5, Reg(RCX)) = op.dst
  BY <1>4, <1>13, <1>14
<1>16. ASSUME NEW l, Untouched(op, l), l # Loc(op.dst) PROVE Get(h5, l) = Get(host, l)
  <2>1. l # Reg(RCX) /\ l # Tmp(0) /\ l # Tmp(1)
    BY <1>2, <1>16
  <2>2. CASE l = Reg(RAX)
    BY <1>4, <1>7, <1>8, <1>9, <1>11, <1>13, <1>14, <2>1, <2>2, PlaceFacts
  <2>3. CASE l # Reg(RAX)
    BY <1>7, <1>8, <1>9, <1>11, <1>13, <1>14, <2>1, <2>3
  <2> QED
    BY <2>2, <2>3
<1>17. Computed(op, commit_dst(h5, op, RCX), op.args)
  BY <1>2, <1>15, <1>16, CommitComputes
<1> QED
  BY <1>1, <1>12, <1>17
(* A load, whose base address goes through a parked scratch register.      *)
LEMMA LoadComputes ==
  ASSUME NEW op, op = block[at], Shape(op), Ready(op), Load
  PROVE  \E h, read : Retire(h, read) /\ Computed(op, h, read)
<1> DEFINE d    == dest_reg(op)
           s    == scratch_not(d)
           x    == op.args[1]
           h1   == materialize(host, x, d)
           read == <<Get(h1, Reg(d))>>
           h2   == unpark(Put(park(h1, s, 0), Reg(s), Junk), s, 0)
           h3   == Put(h2, Reg(d), Result(op, read))
<1>1. Retire(commit_dst(h3, op, d), read)
  BY DEF Load
<1>2. /\ Len(op.args) = 1 /\ op.args = <<x>> /\ op.dst # NoReg
      /\ s # d
      /\ \A l : Untouched(op, l) /\ l # Loc(op.dst) => l # Reg(d) /\ l # Tmp(0)
  <2>1. op.kind = "load"
    BY DEF Load, Runs
  <2> QED
    BY <2>1, ArgsByNumber, ScratchFacts, DestFacts, PlaceFacts
    DEF Shape, Arity, HasDst, Untouched
<1>3. Readable(host, x)
  BY <1>2 DEF Ready
<1> HIDE DEF d, s, x
<1>4. \A p : Get(h1, p) = IF p = Reg(d) THEN x ELSE Get(host, p)
  BY <1>3, GetMaterialize
<1> HIDE DEF h1
<1>5. read = op.args
  BY <1>2, <1>4
<1>6. \A p : p # Tmp(0) => Get(h2, p) = Get(h1, p)
  <2> DEFINE g == Put(park(h1, s, 0), Reg(s), Junk)
  <2>1. \A p : Get(g, p) = IF p = Reg(s) THEN Junk
                           ELSE IF p = Tmp(0) THEN Get(h1, Reg(s)) ELSE Get(h1, p)
    BY GetPut, GetPark
  <2> HIDE DEF g
  <2>2. \A p : Get(unpark(g, s, 0), p) = IF p = Reg(s) THEN Get(g, Tmp(0)) ELSE Get(g, p)
    BY GetPark
  <2> QED
    BY <2>1, <2>2, PlaceFacts DEF g
<1> HIDE DEF h2
<1>7. \A p : Get(h3, p) = IF p = Reg(d) THEN op.dst ELSE Get(h2, p)
  BY <1>5, GetPut DEF Result
<1> HIDE DEF h3, read
<1>8. Computed(op, commit_dst(h3, op, d), op.args)
  BY <1>2, <1>4, <1>6, <1>7, CommitComputes DEF d
<1> QED
  BY <1>1, <1>5, <1>8

(* Stores and flags change RAX, RCX and RDX only.                          *)
LEMMA StoreOrSetFlagsComputes ==
  ASSUME NEW op, op = block[at], Shape(op), Ready(op), StoreOrSetFlags
  PROVE  \E h, read : Retire(h, read) /\ Computed(op, h, read)
<1> DEFINE x    == op.args[1]
           y    == op.args[2]
           h1   == materialize(host, x, RAX)
           h2   == materialize(h1, y, RCX)
           read == <<Get(h2, Reg(RAX)), Get(h2, Reg(RCX))>>
           h3   == Put(Put(Put(h2, Reg(RAX), Junk), Reg(RCX), Junk), Reg(RDX), Junk)
<1>1. Retire(h3, read)
  BY DEF StoreOrSetFlags
<1>2. /\ Len(op.args) = 2 /\ op.args = <<x, y>> /\ op.dst = NoReg
      /\ Clobbered(op) = {RAX, RCX, RDX}
  <2>1. op.kind \in {"store", "setflags"}
    BY DEF StoreOrSetFlags, Runs
  <2> QED
    BY <2>1, ArgsByNumber DEF Shape, Arity, HasDst, Clobbered
<1>3. /\ Readable(host, x) /\ Readable(host, y)
      /\ y \notin Imm => Untouched(op, Loc(y))
  BY <1>2 DEF Ready
<1>4. Reg(RAX) # Reg(RCX)
  BY PlaceFacts, RegisterAssumption
<1> HIDE DEF x, y
<1>5. \A p : Get(h1, p) = IF p = Reg(RAX) THEN x ELSE Get(host, p)
  BY <1>3, GetMaterialize
<1> HIDE DEF h1
<1>6. Readable(h1, y)
  BY <1>2, <1>3, <1>5 DEF Readable, Untouched
<1>7. \A p : Get(h2, p) = IF p = Reg(RCX) THEN y ELSE Get(h1, p)
  BY <1>6, GetMaterialize
<1> HIDE DEF h2
<1>8. read = op.args
  BY <1>2, <1>4, <1>5, <1>7
<1>9. \A l : Untouched(op, l) => Get(h3, l) = Get(host, l)
  BY <1>2, <1>5, <1>7, GetPut DEF Untouched
<1> QED
  BY <1>1, <1>2, <1>8, <1>9 DEF Computed

(* A read of the CPU state.                                                *)
LEMMA GetStateComputes ==
  ASSUME NEW op, op = block[at], Shape(op), Ready(op), GetState
  PROVE  \E h, read : Retire(h, read) /\ Computed(op, h, read)
<1> DEFINE d == dest_reg(op)
           h == Put(host, Reg(d), Result(op, <<>>))
<1>1. Retire(commit_dst(h, op, d), <<>>)
  BY DEF GetState
<1>2. /\ op.args = <<>> /\ op.dst # NoReg
      /\ \A l : Untouched(op, l) /\ l # Loc(op.dst) => l # Reg(d)
  <2>1. op.kind = "get"
    BY DEF GetState, Runs
  <2> QED
    BY <2>1, ArgsByNumber, DestFacts DEF Shape, Arity, HasDst
<1>3. \A p : Get(h, p) = IF p = Reg(d) THEN op.dst ELSE Get(host, p)
  BY <1>2, GetPut DEF Result
<1> HIDE DEF h
<1>4. Computed(op, commit_dst(h, op, d), op.args)
  BY <1>2, <1>3, CommitComputes
<1> QED
  BY <1>1, <1>2, <1>4

(* A write of the CPU state changes RAX only, or RAX and RCX.              *)
LEMMA SetStateComputes ==
  ASSUME NEW op, op = block[at], Shape(op), Ready(op), SetState \/ SetCrField
  PROVE  \E h, read : Retire(h, read) /\ Computed(op, h, read)
<1> DEFINE x == op.args[1]
<1>1. /\ op.args = <<x>> /\ op.dst = NoReg
      /\ Readable(host, x)
      /\ RAX \in Clobbered(op)
      /\ op.kind = "set_cr_field" => RCX \in Clobbered(op)
  <2>1. op.kind \in {"set", "set_cr_field"}
    BY DEF SetState, SetCrField, Runs
  <2>2. Len(op.args) = 1
    BY <2>1 DEF Shape, Arity
  <2>3. op.args = <<x>> /\ Readable(host, x)
    BY <2>2, ArgsByNumber DEF Ready
  <2>4. op.dst = NoReg
    BY <2>1 DEF Shape, HasDst
  <2>5. RAX \in Clobbered(op) /\ (op.kind = "set_cr_field" => RCX \in Clobbered(op))
    BY <2>1 DEF Clobbered
  <2> QED
    BY <2>3, <2>4, <2>5
<1>2. CASE SetState
  <2> DEFINE h == materialize(host, x, RAX)
  <2>1. Retire(h, <<Get(h, Reg(RAX))>>)
    BY <1>2 DEF SetState
  <2>2. \A p : Get(h, p) = IF p = Reg(RAX) THEN x ELSE Get(host, p)
    BY <1>1, GetMaterialize
  <2> HIDE DEF h, x
  <2>3. Computed(op, h, <<Get(h, Reg(RAX))>>)
    BY <1>1, <2>2 DEF Computed, Untouched
  <2> QED
    BY <2>1, <2>3
<1>3. CASE SetCrField
  <2> DEFINE h == materialize(host, x, RCX)
             g == Put(Put(h, Reg(RAX), Junk), Reg(RCX), Junk)
  <2>1. Retire(g, <<Get(h, Reg(RCX))>>) /\ op.kind = "set_cr_field"
    BY <1>3 DEF SetCrField, Runs
  <2>2. \A p : Get(h, p) = IF p = Reg(RCX) THEN x ELSE Get(host, p)
    BY <1>1, GetMaterialize
  <2> HIDE DEF h, x
  <2>3. Computed(op, g, <<Get(h, Reg(RCX))>>)
    BY <1>1, <2>1, <2>2, GetPut DEF Computed, Untouched
  <2> QED
    BY <2>1, <2>3
<1> QED
  BY <1>2, <1>3

(* An exit reads its condition or target and changes RAX.                  *)
LEMMA ExitComputes ==
  ASSUME NEW op, op = block[at], Shape(op), Ready(op), Exit \/ PlainExit
  PROVE  \E h, read : Leave(h, read) /\ Computed(op, h, read)
<1>1. op.dst = NoReg /\ RAX \in Clobbered(op)
  <2>1. op.kind \in {"branch", "indirect", "jump", "return"}
    BY DEF Exit, PlainExit, Runs
  <2> QED
    BY <2>1 DEF Shape, HasDst, Clobbered
<1>2. CASE PlainExit
  <2> DEFINE h == Put(host, Reg(RAX), Junk)
  <2>1. Leave(h, <<>>) /\ op.args = <<>>
    <3>1. op.kind \in {"jump", "return"}
      BY <1>2 DEF PlainExit, Runs
    <3> QED
      BY <1>2, <3>1, ArgsByNumber DEF PlainExit, Shape, Arity
  <2>2. Computed(op, h, <<>>)
    BY <1>1, <2>1, GetPut DEF Computed, Untouched
  <2> QED
    BY <2>1, <2>2
<1>3. CASE Exit
  <2> DEFINE x == op.args[1]
             h == materialize(host, x, RAX)
             g == Put(h, Reg(RAX), Junk)
  <2>1. Leave(g, <<Get(h, Reg(RAX))>>)
    BY <1>3 DEF Exit
  <2>2. op.args = <<x>> /\ Readable(host, x)
    <3>1. op.kind \in {"branch", "indirect"}
      BY <1>3 DEF Exit, Runs
    <3>2. Len(op.args) = 1
      BY <3>1 DEF Shape, Arity
    <3> QED
      BY <3>2, ArgsByNumber DEF Ready
  <2>3. \A p : Get(h, p) = IF p = Reg(RAX) THEN x ELSE Get(host, p)
    BY <2>2, GetMaterialize
  <2> HIDE DEF h, x
  <2>4. Computed(op, g, <<Get(h, Reg(RAX))>>)
    BY <1>1, <2>2, <2>3, GetPut DEF Computed, Untouched
  <2> QED
    BY <2>1, <2>4
<1> QED
  BY <1>2, <1>3

(* The two operands of a vector op, in the destination and in RCX.         *)
LEMMA VecOperands ==
  ASSUME NEW op, Shape(op), Ready(op), op.kind \in {"vec", "fma"}
  PROVE  /\ op.dst # NoReg
         /\ Reg(dest_reg(op)) # Reg(RCX)
         /\ Get(VecHost(op), Reg(dest_reg(op))) = op.args[1]
         /\ Get(VecHost(op), Reg(RCX)) = op.args[2]
         /\ \A l : Untouched(op, l) /\ l # Loc(op.dst) => l # Reg(dest_reg(op)) /\ l # Reg(RCX)
         /\ \A p : p # Reg(dest_reg(op)) /\ p # Reg(RCX) => Get(VecHost(op), p) = Get(host, p)
<1> DEFINE d  == dest_reg(op)
           x  == op.args[1]
           y  == op.args[2]
           h1 == materialize(host, x, d)
           h2 == materialize(h1, y, RCX)
<1>1. /\ Len(op.args) \in {2, 3} /\ op.dst # NoReg /\ RCX \in Clobbered(op)
      /\ \A l : Untouched(op, l) /\ l # Loc(op.dst) => l # Reg(d)
  BY DestFacts DEF Shape, Arity, HasDst, Clobbered
<1>2. /\ Readable(host, x) /\ Readable(host, y)
      /\ y \notin Imm => Untouched(op, Loc(y)) /\ Loc(y) # Loc(op.dst)
  BY <1>1 DEF Ready
<1>3. Reg(d) # Reg(RCX)
  <2>1. CASE InReg(op)
    <3>1. Loc(op.dst) \in Location /\ Loc(op.dst) # Reg(RCX)
      BY <1>1 DEF Ready, Untouched
    <3> QED
      BY <2>1, <3>1, PlaceFacts DEF InReg, dest_reg
  <2>2. CASE ~InReg(op)
    BY <2>2, PlaceFacts, RegisterAssumption DEF dest_reg
  <2> QED
    BY <2>1, <2>2
<1>4. VecHost(op) = h2
  BY DEF VecHost
<1> HIDE DEF d, x, y
<1>5. \A p : Get(h1, p) = IF p = Reg(d) THEN x ELSE Get(host, p)
  BY <1>2, GetMaterialize
<1> HIDE DEF h1
<1>6. Readable(h1, y)
  BY <1>1, <1>2, <1>5 DEF Readable
<1>7. \A p : Get(h2, p) = IF p = Reg(RCX) THEN y ELSE Get(h1, p)
  BY <1>6, GetMaterialize
<1> HIDE DEF h2
<1>8. \A l : Untouched(op, l) => l # Reg(RCX)
  BY <1>1 DEF Untouched
<1> QED
  BY <1>1, <1>3, <1>4, <1>5, <1>7, <1>8 DEF d, x, y

(* A vector sum or product.                                                *)
LEMMA VecComputes ==
  ASSUME NEW op, op = block[at], Shape(op), Ready(op), Vec
  PROVE  \E h, read : Retire(h, read) /\ Computed(op, h, read)
<1> DEFINE d    == dest_reg(op)
           read == VecRead(op)
           h    == Put(VecHost(op), Reg(d), Result(op, read))
<1>1. Retire(commit_dst(h, op, d), read)
  BY DEF Vec
<1>2. op.kind = "vec"
  BY DEF Vec, Runs
<1>3. read = op.args
  <2>1. op.args = <<op.args[1], op.args[2]>>
    BY <1>2, ArgsByNumber DEF Shape, Arity
  <2> QED
    BY <1>2, <2>1, VecOperands DEF VecRead
<1> HIDE DEF read
<1>4. \A p : Get(h, p) = IF p = Reg(d) THEN op.dst ELSE Get(VecHost(op), p)
  BY <1>3, GetPut DEF Result
<1> HIDE DEF h
<1>5. Computed(op, commit_dst(h, op, d), op.args)
  BY <1>2, <1>4, VecOperands, CommitComputes
<1> QED
  BY <1>1, <1>3, <1>5

(* A fused multiply and add: the product waits in the destination, which   *)
(* no operand shares, while the third operand is fetched.                  *)
LEMMA FmaComputes ==
  ASSUME NEW op, op = block[at], Shape(op), Ready(op), Fma
  PROVE  \E h, read : Retire(h, read) /\ Computed(op, h, read)
<1> DEFINE d    == dest_reg(op)
           z    == op.args[3]
           prod == IF VecRead(op) = <<op.args[1], op.args[2]>> THEN op.dst ELSE Junk
           h1   == Put(VecHost(op), Reg(d), prod)
           h2   == commit_dst(h1, op, d)
           h3   == materialize(h2, z, RCX)
           read == Append(VecRead(op), Get(h3, Reg(RCX)))
           sum  == IF Get(h3, Reg(d)) = prod THEN Result(op, read) ELSE Junk
           h4   == Put(h3, Reg(d), sum)
<1>1. Retire(commit_dst(h4, op, d), read)
  BY DEF Fma
<1>2. op.kind = "fma"
  BY DEF Fma, Runs
<1>3. /\ Len(op.args) = 3
      /\ op.args = <<op.args[1], op.args[2], z>>
  BY <1>2, ArgsByNumber DEF Shape, Arity
<1>4. /\ Readable(host, z)
      /\ z \notin Imm => Untouched(op, Loc(z)) /\ Loc(z) # Loc(op.dst)
  BY <1>2, <1>3, VecOperands DEF Ready
<1>5. prod = op.dst /\ VecRead(op) = <<op.args[1], op.args[2]>>
  BY <1>2, VecOperands DEF VecRead
<1> HIDE DEF z, prod
<1>6. \A p : Get(h1, p) = IF p = Reg(d) THEN op.dst ELSE Get(VecHost(op), p)
  BY <1>5, GetPut
<1> HIDE DEF h1
<1>7. \A p : Get(h2, p) = IF p = Loc(op.dst) THEN op.dst ELSE Get(h1, p)
  BY <1>2, <1>6, VecOperands, GetCommit
<1> HIDE DEF h2
<1>8. Readable(h2, z)
  BY <1>2, <1>4, <1>6, <1>7, VecOperands DEF Readable
<1>9. \A p : Get(h3, p) = IF p = Reg(RCX) THEN z ELSE Get(h2, p)
  BY <1>8, GetMaterialize
<1> HIDE DEF h3
<1>10. read = op.args
  BY <1>3, <1>5, <1>9
<1>11. sum = op.dst
  BY <1>2, <1>5, <1>6, <1>7, <1>9, <1>10, VecOperands DEF Result
<1> HIDE DEF read, sum
<1>12. \A p : Get(h4, p) = IF p = Reg(d) THEN op.dst ELSE Get(h3, p)
  BY <1>11, GetPut
<1> HIDE DEF h4
<1>13. ASSUME NEW l, Untouched(op, l), l # Loc(op.dst) PROVE Get(h4, l) = Get(host, l)
  BY <1>2, <1>6, <1>7, <1>9, <1>12, <1>13, VecOperands
<1>14. Computed(op, commit_dst(h4, op, d), op.args)
  BY <1>2, <1>12, <1>13, VecOperands, CommitComputes
<1> QED
  BY <1>1, <1>10, <1>14
-----------------------------------------------------------------------------
(* The invariant of the run of a block.                                    *)

(* v is the result of an op up to `at` and read by one after it.           *)
Later(v) ==
  \E m \in 1..at, n \in (at + 1)..Len(block) :
    block[m].dst = v /\ v \in Operands(block[n])

EmitInv ==
  /\ IInv
  /\ PressureInv
  /\ block \in Blocks
  /\ at \in 1..(Len(block) + 1)
  /\ Len(seen) \in Nat
  /\ seen \in Seq({seen[n] : n \in 1..Len(seen)})
  /\ at <= Len(block) => Len(seen) = at - 1
  /\ pc # "done" => at = 1 /\ seen = <<>>
  /\ InPlace
  /\ pc = "done" /\ ClobberFree => OperandsIntact

(* What the blocks of an IrBuilder are like.                               *)
LEMMA BlockFacts ==
  ASSUME EmitInv
  PROVE  /\ block \in Seq(Op) /\ Len(block) \in Nat
         /\ IsSsa(block)
         /\ \A n \in 1..Len(block) : Shape(block[n])
<1>1. block \in Seq(Op) /\ Len(block) \in Nat
  BY BlocksAssumption, LenProperties DEF EmitInv
<1>2. \A n \in 1..Len(block) : block[n] \in Op
  BY <1>1, ElementOfSeq
<1> QED
  BY <1>1, <1>2, EmitAssumption DEF EmitInv, Shape

(* Before an op of code free of clobbering runs: its operands are in       *)
(* place, and so is every value read later that it does not define itself. *)
LEMMA OpReady ==
  ASSUME EmitInv, pc = "done", ClobberFree, at <= Len(block)
  PROVE  /\ Ready(block[at])
         /\ \A v \in VReg : Later(v) =>
              /\ Untouched(block[at], Loc(v))
              /\ v # block[at].dst =>
                   /\ Get(host, Loc(v)) = v
                   /\ block[at].dst # NoReg => Loc(v) # Loc(block[at].dst)
<1> DEFINE op == block[at]
<1>1. /\ Len(block) \in Nat /\ at \in 1..Len(block) /\ IsSsa(block)
      /\ op \in Op /\ op.dst \in VReg \cup {NoReg} /\ op.args \in Seq(VReg \cup Imm)
  BY BlockFacts DEF EmitInv, Shape, Op
<1>2. \A j \in 1..Len(op.args) : op.args[j] \in VReg \cup Imm
  BY <1>1, ElementOfSeq
<1>3. /\ LiveValuesApart
      /\ \A v \in DOMAIN map : map[v] \in Location
  BY IInvImpliesApart DEF EmitInv, IInv, TypeOK, PartialFunction
<1>4. ASSUME NEW v \in LiveAt(at)
      PROVE  /\ Untouched(op, Loc(v))
             /\ \A u \in LiveAt(at) : Loc(u) = Loc(v) => u = v
  <2>1. \A u \in LiveAt(at) : u \in DOMAIN map
    BY <1>1, <1>3 DEF LiveValuesApart
  <2>2. \A u \in LiveAt(at) : Loc(u) = map[u] /\ Loc(u) \in Location
    BY <1>3, <2>1 DEF Loc
  <2>3. Loc(v).kind = "Reg" => Loc(v).gpr \notin Clobbered(op)
    BY <1>1 DEF ClobberFree
  <2>4. Untouched(op, Loc(v))
    BY <2>2, <2>3, PlaceFacts DEF Untouched
  <2> QED
    BY <1>1, <1>3, <2>2, <2>4 DEF LiveValuesApart
<1>5. op.dst # NoReg => op.dst \in LiveAt(at)
  BY <1>1 DEF LiveAt, Touched
<1>6. ASSUME NEW j \in 1..Len(op.args), op.args[j] \notin Imm
      PROVE  /\ op.args[j] \in LiveAt(at) /\ op.args[j] # op.dst
             /\ Get(host, Loc(op.args[j])) = op.args[j]
  <2>1. op.args[j] \in VReg /\ op.args[j] \in Operands(op)
    BY <1>1, <1>2, <1>6 DEF Operands
  <2>2. PICK m \in 1..(at - 1) : block[m].dst = op.args[j]
    BY <1>1, <2>1 DEF IsSsa
  <2>3. op.args[j] # op.dst
    BY <1>1, <2>1, <2>2, NoRegAssumption DEF IsSsa
  <2>4. Get(host, Loc(op.args[j])) = op.args[j]
    <3>1. at \in at..Len(block)
      BY <1>1
    <3>2. \E a \in 1..(at - 1), n \in at..Len(block) :
            block[a].dst = op.args[j] /\ op.args[j] \in Operands(block[n])
      BY <2>1, <2>2, <3>1
    <3> QED
      BY <2>1, <3>2 DEF EmitInv, InPlace
  <2>5. op.args[j] \in LiveAt(at)
    BY <1>1, <2>1 DEF LiveAt, Touched
  <2> QED
    BY <2>3, <2>4, <2>5
<1>7. Ready(op)
  BY <1>4, <1>5, <1>6 DEF Ready, Readable
<1>8. ASSUME NEW v \in VReg, Later(v)
      PROVE  /\ Untouched(op, Loc(v))
             /\ v # op.dst =>
                  /\ Get(host, Loc(v)) = v
                  /\ op.dst # NoReg => Loc(v) # Loc(op.dst)
  <2>1. PICK m \in 1..at, n \in (at + 1)..Len(block) :
          block[m].dst = v /\ v \in Operands(block[n])
    BY <1>8 DEF Later
  <2>2. v \in LiveAt(at)
    <3>1. v \in Touched(block[m]) /\ v \in Touched(block[n])
      BY <2>1, NoRegAssumption DEF Touched
    <3>2. m \in 1..at /\ n \in at..Len(block)
      BY <1>1
    <3> QED
      BY <3>1, <3>2 DEF LiveAt
  <2>3. ASSUME v # op.dst PROVE Get(host, Loc(v)) = v
    <3>1. m \in 1..(at - 1) /\ n \in at..Len(block)
      BY <1>1, <2>1, <2>3
    <3> QED
      BY <2>1, <3>1 DEF EmitInv, InPlace
  <2> QED
    BY <1>4, <1>5, <2>2, <2>3
<1> QED
  BY <1>7, <1>8

(* Every op reads its operands and puts its result in place.               *)
LEMMA RunOpComputes ==
  ASSUME EmitInv, RunOp, ClobberFree
  PROVE  /\ pc = "done" /\ at <= Len(block)
         /\ \E h, read : (Retire(h, read) \/ Leave(h, read)) /\ Computed(block[at], h, read)
<1> DEFINE op == block[at]
<1>1. pc = "done" /\ at <= Len(block)
  BY DEF RunOp, Binop, Mul, Shift, Load, StoreOrSetFlags, GetState, SetState,
         SetCrField, Exit, PlainExit, Vec, Fma, Runs
<1>2. Shape(op) /\ Ready(op)
  BY <1>1, BlockFacts, OpReady DEF EmitInv
<1>3. CASE Binop
  <2>1. op.kind = "binop" /\ ((op.args[2] \in Imm /\ ByImmediate(op)) \/ ByScratch(op))
    BY <1>3 DEF Binop, Runs
  <2> QED
    BY <1>1, <1>2, <2>1, ByImmediateComputes, ByScratchComputes
<1>4. CASE Mul
  <2>1. op.kind = "mul" /\ ByScratch(op)
    BY <1>4 DEF Mul, Runs
  <2> QED
    BY <1>1, <1>2, <2>1, ByScratchComputes
<1>5. CASE Shift
  <2>1. /\ op.kind = "shift"
        /\ IF op.args[2] \in Imm THEN ByImmediate(op) ELSE ByCl(op)
    BY <1>5 DEF Shift, Runs
  <2> QED
    BY <1>1, <1>2, <2>1, ByImmediateComputes, ByClComputes, ByClInRcxComputes
<1>6. CASE Load
  BY <1>1, <1>2, <1>6, LoadComputes
<1>7. CASE StoreOrSetFlags
  BY <1>1, <1>2, <1>7, StoreOrSetFlagsComputes
<1>8. CASE GetState
  BY <1>1, <1>2, <1>8, GetStateComputes
<1>9. CASE SetState \/ SetCrField
  BY <1>1, <1>2, <1>9, SetStateComputes
<1>10. CASE Exit \/ PlainExit
  BY <1>1, <1>2, <1>10, ExitComputes
<1>11. CASE Vec
  BY <1>1, <1>2, <1>11, VecComputes
<1>12. CASE Fma
  BY <1>1, <1>2, <1>12, FmaComputes
<1> QED
  BY <1>3, <1>4, <1>5, <1>6, <1>7, <1>8, <1>9, <1>10, <1>11, <1>12 DEF RunOp

(* A sequence over what it holds, one element longer.                      *)
LEMMA AppendAny ==
  ASSUME NEW s, s \in Seq({s[n] : n \in 1..Len(s)}), NEW e, NEW t, t = Append(s, e)
  PROVE  /\ Len(t) = Len(s) + 1
         /\ t \in Seq({t[n] : n \in 1..Len(t)})
         /\ \A n \in 1..Len(s) : t[n] = s[n]
         /\ t[Len(s) + 1] = e
<1> DEFINE S == {s[n] : n \in 1..Len(s)} \cup {e}
<1>1. s \in Seq(S)
  <2>1. Len(s) \in Nat /\ s \in [1..Len(s) -> {s[n] : n \in 1..Len(s)}]
    BY LenProperties
  <2>2. s \in [1..Len(s) -> S]
    BY <2>1
  <2> QED
    BY <2>1, <2>2, SeqDef
<1> HIDE DEF S
<1>2. e \in S
  BY DEF S
<1>3. /\ t \in Seq(S) /\ Len(t) = Len(s) + 1
      /\ \A n \in 1..Len(s) : t[n] = s[n]
      /\ t[Len(s) + 1] = e
  BY <1>1, <1>2, AppendProperties
<1>4. t \in Seq({t[n] : n \in 1..Len(t)})
  <2>1. Len(t) \in Nat /\ t \in [1..Len(t) -> S]
    BY <1>3, LenProperties
  <2>2. t \in [1..Len(t) -> {t[n] : n \in 1..Len(t)}]
    BY <2>1
  <2> QED
    BY <2>1, <2>2, SeqDef
<1> QED
  BY <1>3, <1>4
-----------------------------------------------------------------------------
(* The invariant is inductive.                                             *)

(* Nothing has run when the allocator is called.                           *)
LEMMA EmitInvInit == EmitInit => EmitInv
<1> SUFFICES ASSUME EmitInit PROVE EmitInv
  OBVIOUS
<1>1. IInv /\ PressureInv
  BY InitIInv, PressureInit DEF EmitInit
<1>2. block \in Blocks /\ pc = "scan" /\ at = 1 /\ seen = <<>>
  BY DEF EmitInit, Init
<1>3. Len(block) \in Nat
  BY <1>2, BlocksAssumption, LenProperties
<1>4. Len(seen) = 0 /\ seen \in Seq({seen[n] : n \in 1..Len(seen)})
  BY <1>2, EmptySeq
<1> QED
  BY <1>1, <1>2, <1>3, <1>4 DEF EmitInv, InPlace

(* Operators over the block and the allocation, in steps that keep both.   *)
LEMMA SameAllocation ==
  ASSUME UNCHANGED <<block, map>>
  PROVE  /\ \A v : Loc(v)' = Loc(v)
         /\ ClobberFree' = ClobberFree
         /\ LowPressure' = LowPressure
BY DEF Loc, ClobberFree, LiveAt, Clobbered, InReg, AmountLost, dest_reg, LowPressure

(* The allocator runs before any code does.                                *)
LEMMA EmitInvAllocate == EmitInv /\ Allocate => EmitInv'
<1> SUFFICES ASSUME EmitInv, Allocate PROVE EmitInv'
  OBVIOUS
<1>1. Next /\ UNCHANGED <<host, at, seen>> /\ UNCHANGED block
  BY DEF Allocate, emitVars, Next, ScanOp, CollectIntervals, NextInterval, Expire,
         Retain, Swept, PlaceInFree, PlaceBySpilling, Finish, Returned, vars
<1>2. IInv' /\ PressureInv'
  BY <1>1, NextIInv, PressureNext DEF EmitInv
<1>3. CASE pc # "done"
  <2>1. at = 1 /\ seen = <<>> /\ at' = 1 /\ seen' = <<>>
    BY <1>1, <1>3 DEF EmitInv
  <2>2. InPlace'
    BY <2>1 DEF InPlace
  <2>3. OperandsIntact'
    BY <2>1, EmptySeq DEF OperandsIntact
  <2> QED
    BY <1>1, <1>2, <2>1, <2>2, <2>3 DEF EmitInv
<1>4. CASE pc = "done"
  <2>1. UNCHANGED vars
    BY <1>1, <1>4 DEF Next, ScanOp, CollectIntervals, NextInterval, Expire,
                      Retain, Swept, PlaceInFree, PlaceBySpilling, Finish, Returned
  <2>2. UNCHANGED <<block, map, pc, host, at, seen>>
    BY <1>1, <2>1 DEF vars
  <2>3. (pc = "done" /\ ClobberFree => InPlace)'
    BY <2>2, SameAllocation DEF EmitInv, InPlace
  <2>4. InPlace' /\ (pc = "done" /\ ClobberFree => OperandsIntact)'
    BY <2>2, <2>3, SameAllocation DEF EmitInv, InPlace, OperandsIntact
  <2> QED
    BY <1>2, <2>2, <2>4 DEF EmitInv
<1> QED
  BY <1>3, <1>4

(* The tables of an action that runs an op.                                *)
LEMMA RunOpShape ==
  ASSUME RunOp
  PROVE  /\ pc = "done" /\ at <= Len(block)
         /\ \E h, read : Retire(h, read) \/ Leave(h, read)
<1>1. pc = "done" /\ at <= Len(block)
  BY DEF RunOp, Binop, Mul, Shift, Load, StoreOrSetFlags, GetState, SetState,
         SetCrField, Exit, PlainExit, Vec, Fma, Runs
<1>2. \E h, read : Retire(h, read) \/ Leave(h, read)
  BY DEF RunOp, Binop, Mul, Shift, Load, StoreOrSetFlags, GetState, SetState,
         SetCrField, Exit, PlainExit, Vec, Fma, ByScratch, ByImmediate, ByCl
<1> QED
  BY <1>1, <1>2

(* Running an op.                                                          *)
LEMMA EmitInvRunOp == EmitInv /\ RunOp => EmitInv'
<1> SUFFICES ASSUME EmitInv, RunOp PROVE EmitInv'
  OBVIOUS
<1>1. pc = "done" /\ at \in 1..Len(block) /\ Len(block) \in Nat
  BY RunOpShape, BlockFacts DEF EmitInv
<1>2. PICK h, read :
        /\ Retire(h, read) \/ Leave(h, read)
        /\ ClobberFree => Computed(block[at], h, read)
  BY RunOpShape, RunOpComputes
<1>3. /\ host' = h /\ seen' = Append(seen, read)
      /\ at' = at + 1 \/ at' = Len(block) + 1
      /\ UNCHANGED vars
  BY <1>2 DEF Retire, Leave
<1>4. UNCHANGED <<block, map, pc>>
  BY <1>3 DEF vars
<1>5. IInv' /\ PressureInv'
  BY <1>3, NextIInv, PressureNext DEF EmitInv
<1>6. /\ Len(seen) = at - 1
      /\ Len(seen') = at
      /\ seen' \in Seq({seen'[n] : n \in 1..Len(seen')})
      /\ \A n \in 1..(at - 1) : seen'[n] = seen[n]
      /\ seen'[at] = read
  <2>1. Len(seen) = at - 1
    BY <1>1 DEF EmitInv
  <2>2. seen \in Seq({seen[n] : n \in 1..Len(seen)})
    BY DEF EmitInv
  <2>3. /\ Len(seen') = Len(seen) + 1
        /\ seen' \in Seq({seen'[n] : n \in 1..Len(seen')})
        /\ \A n \in 1..Len(seen) : seen'[n] = seen[n]
        /\ seen'[Len(seen) + 1] = read
    BY ONLY <1>3, <2>2, AppendAny
  <2>4. Len(seen) + 1 = at
    BY ONLY <1>1, <2>1
  <2> QED
    BY ONLY <2>1, <2>3, <2>4
<1>7. ASSUME ClobberFree PROVE OperandsIntact'
  <2>1. \A n \in 1..(at - 1) : seen[n] = block[n].args
    BY <1>1, <1>6, <1>7 DEF EmitInv, OperandsIntact
  <2>2. read = block[at].args
    BY <1>2, <1>7 DEF Computed
  <2>3. ASSUME NEW n \in 1..Len(seen') PROVE seen'[n] = block[n].args
    <3>1. n \in 1..(at - 1) \/ n = at
      BY ONLY <1>1, <1>6, <2>3
    <3> QED
      BY ONLY <1>6, <2>1, <2>2, <3>1
  <2> QED
    BY ONLY <1>4, <2>3 DEF OperandsIntact
<1>8. ASSUME ClobberFree, NEW v \in VReg,
             NEW m \in 1..(at' - 1), NEW n \in at'..Len(block),
             block[m].dst = v, v \in Operands(block[n])
      PROVE  Get(h, Loc(v)) = v
  <2>1. Later(v)
    <3>1. m \in 1..at /\ n \in (at + 1)..Len(block)
      BY <1>1, <1>3
    <3> QED
      BY <1>8, <3>1 DEF Later
  <2>2. Computed(block[at], h, read)
    BY <1>2, <1>8
  <2>3. CASE v = block[at].dst
    BY <2>2, <2>3, NoRegAssumption DEF Computed
  <2>4. CASE v # block[at].dst
    <3>1. /\ Untouched(block[at], Loc(v))
          /\ Get(host, Loc(v)) = v
          /\ block[at].dst # NoReg => Loc(v) # Loc(block[at].dst)
      BY <1>1, <1>8, <2>1, <2>4, OpReady
    <3> QED
      BY <2>2, <3>1 DEF Computed
  <2> QED
    BY <2>3, <2>4
<1>9. InPlace'
  BY <1>3, <1>4, <1>8, SameAllocation DEF InPlace
<1>10. /\ block' \in Blocks /\ at' \in 1..(Len(block') + 1)
       /\ at' <= Len(block') => Len(seen') = at' - 1
       /\ pc' = "done" /\ Len(seen') \in Nat
  <2>1. block' = block /\ pc' = pc /\ block \in Blocks
    BY <1>4 DEF EmitInv
  <2>2. at' \in 1..(Len(block) + 1) /\ (at' <= Len(block) => at' = at + 1)
    BY <1>1, <1>3
  <2>3. Len(seen') = at
    BY <1>6
  <2>4. at' <= Len(block) => Len(seen') = at' - 1
    BY <1>1, <2>2, <2>3
  <2>5. Len(seen') \in Nat
    BY <1>1, <2>3
  <2>6. pc' = "done"
    BY <1>1, <2>1
  <2> QED
    BY <2>1, <2>2, <2>4, <2>5, <2>6
<1>11. (pc = "done" /\ ClobberFree => OperandsIntact)'
  BY <1>4, <1>7, SameAllocation
<1> QED
  BY <1>5, <1>6, <1>9, <1>10, <1>11 DEF EmitInv

(* Every step of the emitted code and of the allocator preserves it.       *)
THEOREM EmitInvHolds == EmitSpec => []EmitInv
<1>1. EmitInv /\ [EmitNext]_<<vars, emitVars>> => EmitInv'
  <2> SUFFICES ASSUME EmitInv, [EmitNext]_<<vars, emitVars>> PROVE EmitInv'
    OBVIOUS
  <2>1. CASE UNCHANGED <<vars, emitVars>>
    <3>1. UNCHANGED <<block, map, pc, host, at, seen>>
      BY <2>1 DEF vars, emitVars
    <3>2. IInv' /\ PressureInv'
      BY <2>1, NextIInv, PressureNext DEF EmitInv
    <3>3. InPlace' /\ (pc = "done" /\ ClobberFree => OperandsIntact)'
      BY <3>1, SameAllocation DEF EmitInv, InPlace, OperandsIntact
    <3> QED
      BY <3>1, <3>2, <3>3 DEF EmitInv
  <2> QED
    BY <2>1, EmitInvAllocate, EmitInvRunOp DEF EmitNext
<1> QED
  BY <1>1, EmitInvInit, PTL DEF EmitSpec

-----------------------------------------------------------------------------
(* Parking, spilling and the reuse of registers lose nothing: if no live   *)
(* value is in a register that an op clobbers, every op of the block reads *)
(* the operands the IR names, for every block and pool.                    *)
THEOREM ClobberFreeRunsRight == EmitSpec => []ClobberFreeIsRight
<1>1. EmitInv => ClobberFreeIsRight
  BY DEF EmitInv, ClobberFreeIsRight
<1> QED
  BY <1>1, EmitInvHolds, PTL

(* Between ops, every value that is still to be read is where the          *)
(* allocation says.                                                        *)
THEOREM ValuesStayInPlace == EmitSpec => []InPlace
<1>1. EmitInv => InPlace
  BY DEF EmitInv
<1> QED
  BY <1>1, EmitInvHolds, PTL

(* The clobbered registers are at the bottom of the pool, where nothing is *)
(* placed in a block that leaves four registers to spare.                  *)
LEMMA LowPressureIsClobberFree ==
  ASSUME EmitInv, pc = "done", LowPressure
  PROVE  ClobberFree
<1> SUFFICES ASSUME NEW n \in 1..Len(block), NEW v \in LiveAt(n),
                    Loc(v).kind = "Reg", Loc(v).gpr \in Clobbered(block[n])
             PROVE  FALSE
  BY DEF ClobberFree
<1>1. /\ IInv /\ ScarceRegistersLast /\ LiveValuesApart
      /\ Len(HostGprs) \in Nat
  BY PressureImpliesScarce, IInvImpliesApart, PoolAssumption, LenProperties DEF EmitInv
<1>2. v \in DOMAIN map /\ Loc(v) = map[v] /\ map[v] \in Location
  BY <1>1 DEF LiveValuesApart, Loc, IInv, TypeOK, PartialFunction
<1>3. map[v] = Reg(map[v].gpr) /\ map[v].gpr \in HostGpr
  BY <1>2 DEF Location, Reg
<1>4. map[v].gpr \in {RAX, RCX, RDX}
  <2>1. Clobbered(block[n]) \subseteq {RAX, RCX, RDX}
    BY DEF Clobbered
  <2> QED
    BY <1>2, <2>1
<1>5. PICK j \in 1..Len(HostGprs) : j <= 4 /\ map[v] = Reg(HostGprs[j])
  BY <1>3, <1>4, RegisterAssumption
<1>6. PICK m \in 1..Len(block) : Cardinality(LiveAt(m)) >= Len(HostGprs) - j + 1
  BY <1>1, <1>2, <1>5 DEF ScarceRegistersLast
<1>7. Cardinality(LiveAt(m)) \in Nat
  <2>1. LiveAt(m) \subseteq DOMAIN first
    BY <1>1, LiveAreScanned
  <2> QED
    BY <2>1, FS_Subset, FS_CardinalityType DEF EmitInv, PressureInv
<1>8. Cardinality(LiveAt(m)) + 4 <= Len(HostGprs)
  BY DEF LowPressure
<1> QED
  BY <1>1, <1>5, <1>6, <1>7, <1>8

(* A block in which at most nine values are live at once (the pool has     *)
(* thirteen registers) runs right, whatever its ops.                       *)
THEOREM LowPressureRunsRight == EmitSpec => []LowPressureIsRight
<1>1. EmitInv => LowPressureIsRight
  <2> SUFFICES ASSUME EmitInv, LowPressure PROVE OperandsIntact
    BY DEF LowPressureIsRight
  <2>1. CASE pc # "done"
    BY <2>1, EmptySeq DEF EmitInv, OperandsIntact
  <2>2. CASE pc = "done"
    BY <2>2, LowPressureIsClobberFree DEF EmitInv
  <2> QED
    BY <2>1, <2>2
<1> QED
  BY <1>1, EmitInvHolds, PTL

-----------------------------------------------------------------------------
(* Where the code writes: registers of the pool, slots that were handed    *)
(* out, the registers it names and the parking slots.                      *)

PoolRegister(g) == \E j \in 1..Len(HostGprs) : g = HostGprs[j]

HandedOut(off, n) == off \in 0..(n - SlotBytes) /\ off % SlotBytes = 0

(* The allocator hands out nothing but registers of its pool and whole     *)
(* slots below next_spill.                                                 *)
PlacesInv ==
  /\ \A j \in 1..Len(free) : PoolRegister(free[j])
  /\ \A j \in 1..Len(active) : PoolRegister(active[j].gpr)
  /\ next_spill % SlotBytes = 0
  /\ \A v \in DOMAIN map :
       IF map[v].kind = "Reg" THEN PoolRegister(map[v].gpr)
                              ELSE HandedOut(map[v].offset, next_spill)

LEMMA PlacesInit == Init => PlacesInv
<1> SUFFICES ASSUME Init PROVE PlacesInv
  OBVIOUS
<1>1. free = HostGprs /\ active = <<>> /\ next_spill = 0 /\ DOMAIN map = {}
  BY DEF Init, EmptyMap
<1>2. next_spill % SlotBytes = 0
  BY <1>1 DEF SlotBytes
<1> QED
  BY <1>1, <1>2 DEF PlacesInv, PoolRegister

(* An expired register goes back to the pool.                              *)
LEMMA PlacesExpire ==
  ASSUME IInv, PlacesInv, Expire
  PROVE  PlacesInv'
<1> DEFINE A == [vreg : VReg, gpr : HostGpr]
<1>1. /\ active \in Seq(A) /\ free \in Seq(HostGpr) /\ k \in 1..Len(active)
      /\ active[k].gpr \in HostGpr
      /\ active' = RemoveAt(active, k) /\ free' = Append(free, active[k].gpr)
      /\ UNCHANGED <<map, next_spill>>
  <2>1. active \in Seq(A) /\ free \in Seq(HostGpr) /\ k \in 1..Len(active)
    BY LenProperties DEF Expire, IInv, TypeOK
  <2>2. active[k] \in A
    BY <2>1, ElementOfSeq
  <2> QED
    BY <2>1, <2>2 DEF Expire
<1>2. /\ Len(active') = Len(active) - 1 /\ Len(active) \in Nat
      /\ \A j \in 1..(Len(active) - 1) :
           active'[j] = IF j < k THEN active[j] ELSE active[j + 1]
  BY <1>1, RemoveAtFacts, LenProperties
<1>3. /\ Len(free') = Len(free) + 1 /\ Len(free) \in Nat
      /\ \A j \in 1..Len(free) : free'[j] = free[j]
      /\ free'[Len(free) + 1] = active[k].gpr
  BY <1>1, AppendProperties, LenProperties
<1>4. \A j \in 1..Len(free') : PoolRegister(free'[j])
  BY <1>1, <1>3 DEF PlacesInv
<1>5. ASSUME NEW j \in 1..Len(active') PROVE PoolRegister(active'[j].gpr)
  <2>1. j \in 1..Len(active) /\ j + 1 \in 1..Len(active) /\ j \in 1..(Len(active) - 1)
    BY <1>2
  <2> QED
    BY <1>2, <2>1 DEF PlacesInv
<1> QED
  BY <1>1, <1>4, <1>5 DEF PlacesInv, HandedOut

(* A popped register is of the pool.                                       *)
LEMMA PlacesPlaceInFree ==
  ASSUME IInv, PlacesInv, PlaceInFree
  PROVE  PlacesInv'
<1> DEFINE A == [vreg : VReg, gpr : HostGpr]
           g == Last(free)
<1>1. /\ active \in Seq(A) /\ free \in Seq(HostGpr) /\ free # <<>> /\ cur \in VReg
      /\ free' = Front(free) /\ active' = Append(active, [vreg |-> cur, gpr |-> g])
      /\ UNCHANGED next_spill
      /\ DOMAIN map' = DOMAIN map \cup {cur} /\ map'[cur] = Reg(g)
      /\ \A v \in DOMAIN map : v # cur => map'[v] = map[v]
  BY DEF PlaceInFree, IInv, TypeOK
<1>2. /\ Len(free) > 0 /\ g \in HostGpr /\ g = free[Len(free)] /\ Len(free) \in Nat
      /\ Len(Front(free)) = Len(free) - 1
      /\ \A j \in 1..(Len(free) - 1) : Front(free)[j] = free[j]
  BY <1>1, PopFacts, LenProperties
<1>3. PoolRegister(g)
  BY <1>2 DEF PlacesInv
<1> HIDE DEF g
<1>4. [vreg |-> cur, gpr |-> g] \in A
  BY <1>1, <1>2
<1>5. /\ Len(active') = Len(active) + 1 /\ Len(active) \in Nat
      /\ \A j \in 1..Len(active) : active'[j] = active[j]
      /\ active'[Len(active) + 1] = [vreg |-> cur, gpr |-> g]
  BY <1>1, <1>4, AppendProperties, LenProperties
<1>6. \A j \in 1..Len(active') : PoolRegister(active'[j].gpr)
  BY <1>3, <1>5 DEF PlacesInv
<1>7. \A j \in 1..Len(free') : PoolRegister(free'[j])
  BY <1>1, <1>2 DEF PlacesInv
<1>8. map'[cur].kind = "Reg" /\ PoolRegister(map'[cur].gpr)
  BY <1>1, <1>3 DEF Reg
<1> QED
  BY <1>1, <1>6, <1>7, <1>8 DEF PlacesInv, HandedOut

(* An evicted value goes to the slot at next_spill, which then moves on.   *)
LEMMA PlacesSpill ==
  ASSUME IInv, PlacesInv, PlaceBySpilling
  PROVE  PlacesInv'
<1> DEFINE A == [vreg : VReg, gpr : HostGpr]
<1>1. /\ active \in Seq(A) /\ cur \in VReg /\ next_spill \in Nat
      /\ next_spill' = next_spill + SlotBytes /\ UNCHANGED free
  BY DEF PlaceBySpilling, IInv, TypeOK
<1>2. PICK n \in 1..Len(active) :
        /\ map' = [v \in DOMAIN map \cup {cur} |->
                     IF v = cur THEN Reg(active[n].gpr)
                     ELSE IF v = active[n].vreg THEN Spill(next_spill)
                     ELSE map[v]]
        /\ active' = Append(SwapRemove(active, n), [vreg |-> cur, gpr |-> active[n].gpr])
  BY DEF PlaceBySpilling
<1>3. /\ PoolRegister(active[n].gpr) /\ active[n] \in A
  BY <1>1, ElementOfSeq DEF PlacesInv
<1>4. /\ SwapRemove(active, n) \in Seq(A)
      /\ Len(SwapRemove(active, n)) = Len(active) - 1 /\ Len(active) \in Nat
      /\ \A j \in 1..(Len(active) - 1) :
           SwapRemove(active, n)[j] = IF j = n THEN active[Len(active)] ELSE active[j]
  BY <1>1, SwapRemoveFacts, LenProperties
<1>5. [vreg |-> cur, gpr |-> active[n].gpr] \in A
  BY <1>1, <1>3
<1>6. /\ Len(active') = Len(active)
      /\ \A j \in 1..(Len(active) - 1) :
           active'[j] = IF j = n THEN active[Len(active)] ELSE active[j]
      /\ active'[Len(active)] = [vreg |-> cur, gpr |-> active[n].gpr]
  BY <1>2, <1>4, <1>5, AppendProperties
<1>7. ASSUME NEW j \in 1..Len(active') PROVE PoolRegister(active'[j].gpr)
  <2>1. CASE j = Len(active)
    BY <1>3, <1>6, <2>1
  <2>2. CASE j # Len(active)
    <3>1. j \in 1..(Len(active) - 1) /\ Len(active) \in 1..Len(active)
      BY <1>4, <1>6, <2>2
    <3> QED
      BY <1>6, <3>1 DEF PlacesInv
  <2> QED
    BY <2>1, <2>2
<1>8. next_spill' % SlotBytes = 0
  BY <1>1 DEF PlacesInv, SlotBytes
<1>9. /\ HandedOut(next_spill, next_spill')
      /\ \A off : HandedOut(off, next_spill) => HandedOut(off, next_spill')
  BY <1>1, <1>8 DEF PlacesInv, HandedOut, SlotBytes
<1>10. ASSUME NEW v \in DOMAIN map'
       PROVE  IF map'[v].kind = "Reg" THEN PoolRegister(map'[v].gpr)
                                      ELSE HandedOut(map'[v].offset, next_spill')
  <2>1. CASE v = cur
    <3>1. map'[v] = Reg(active[n].gpr)
      BY <1>2, <2>1
    <3> QED
      BY <1>3, <3>1 DEF Reg
  <2>2. CASE v # cur /\ v = active[n].vreg
    <3>1. map'[v] = Spill(next_spill)
      BY <1>2, <2>2
    <3>2. HandedOut(next_spill, next_spill')
      BY <1>9
    <3> QED
      BY <3>1, <3>2 DEF Spill
  <2>3. CASE v # cur /\ v # active[n].vreg
    <3>1. map'[v] = map[v] /\ v \in DOMAIN map
      BY <1>2, <2>3
    <3> QED
      BY <1>9, <3>1 DEF PlacesInv
  <2> QED
    BY <2>1, <2>2, <2>3
<1> QED
  BY <1>1, <1>7, <1>8, <1>10 DEF PlacesInv

(* Every step of the allocator.                                            *)
LEMMA PlacesNext == IInv /\ PlacesInv /\ [Next]_vars => PlacesInv'
<1> SUFFICES ASSUME IInv, PlacesInv, [Next]_vars PROVE PlacesInv'
  OBVIOUS
<1>1. CASE ScanOp \/ CollectIntervals \/ NextInterval \/ Retain \/ Swept \/ Finish
           \/ Returned \/ UNCHANGED vars
  <2>1. UNCHANGED <<map, free, active, next_spill>>
    BY <1>1 DEF ScanOp, CollectIntervals, NextInterval, Retain, Swept, Finish,
                Returned, vars
  <2> QED
    BY <2>1 DEF PlacesInv, HandedOut
<1>2. CASE Expire
  BY <1>2, PlacesExpire
<1>3. CASE PlaceInFree
  BY <1>3, PlacesPlaceInFree
<1>4. CASE PlaceBySpilling
  BY <1>4, PlacesSpill
<1> QED
  BY <1>1, <1>2, <1>3, <1>4 DEF Next

(* What a place may hold, and the places that the code may write.          *)
Value == VReg \cup Imm \cup {Junk}

Place(l) ==
  \/ \E r \in {RAX, RCX, RDX} : l = Reg(r)
  \/ \E j \in 1..Len(HostGprs) : l = Reg(HostGprs[j])
  \/ \E w \in 0..1 : l = Tmp(w)
  \/ l \in Location /\ l.kind = "Spill" /\ HandedOut(l.offset, next_spill)

Contained(h) == \A l \in DOMAIN h : h[l] \in Value /\ Place(l)

LEMMA ContainedPut ==
  ASSUME NEW h, Contained(h), NEW l, Place(l), NEW x \in Value
  PROVE  Contained(Put(h, l, x))
BY DEF Contained, Put

LEMMA ContainedMove ==
  ASSUME NEW h, Contained(h), NEW from, NEW to, Place(to)
  PROVE  Get(h, from) \in Value /\ Contained(Move(h, from, to))
<1>1. Get(h, from) \in Value
  BY DEF Get, Contained, Value
<1> QED
  BY <1>1, ContainedPut DEF Move

(* A vreg is in a place of the allocation, or taken for RAX.               *)
LEMMA LocIsPlace ==
  ASSUME IInv, PlacesInv, NEW v
  PROVE  /\ Place(Loc(v))
         /\ Loc(v).kind = "Reg" => Place(Reg(Loc(v).gpr))
<1>1. CASE v \in DOMAIN map
  <2>1. map[v] \in Location
    BY <1>1 DEF IInv, TypeOK, PartialFunction
  <2>2. CASE map[v].kind = "Reg"
    <3>1. map[v] = Reg(map[v].gpr) /\ PoolRegister(map[v].gpr)
      BY <1>1, <2>1, <2>2, PlaceFacts DEF PlacesInv
    <3> QED
      BY <1>1, <3>1 DEF Loc, Place, PoolRegister
  <2>3. CASE map[v].kind # "Reg"
    <3>1. map[v].kind = "Spill" /\ HandedOut(map[v].offset, next_spill)
      BY <1>1, <2>1, <2>3 DEF PlacesInv, Location
    <3> QED
      BY <1>1, <2>1, <3>1 DEF Loc, Place
  <2> QED
    BY <2>2, <2>3
<1>2. CASE v \notin DOMAIN map
  BY <1>2 DEF Loc, Place, Reg
<1> QED
  BY <1>1, <1>2

(* The registers the code of an op works in.                               *)
LEMMA WorkPlaces ==
  ASSUME IInv, PlacesInv, NEW op
  PROVE  /\ Place(Reg(RAX)) /\ Place(Reg(RCX)) /\ Place(Reg(RDX))
         /\ Place(Tmp(0)) /\ Place(Tmp(1))
         /\ Place(Reg(dest_reg(op)))
         /\ Place(Reg(scratch_not(dest_reg(op))))
         /\ Place(Loc(op.dst))
<1>1. Place(Reg(RAX)) /\ Place(Reg(RCX)) /\ Place(Reg(RDX)) /\ Place(Tmp(0)) /\ Place(Tmp(1))
  BY DEF Place
<1>2. Place(Reg(dest_reg(op)))
  <2>1. CASE InReg(op)
    BY <2>1, LocIsPlace DEF dest_reg, InReg
  <2>2. CASE ~InReg(op)
    BY <1>1, <2>2 DEF dest_reg
  <2> QED
    BY <2>1, <2>2
<1>3. Place(Reg(scratch_not(dest_reg(op))))
  BY <1>1 DEF scratch_not
<1>4. Place(Loc(op.dst))
  BY LocIsPlace
<1> QED
  BY <1>1, <1>2, <1>3, <1>4

(* The runs of instructions that the code is made of.                      *)
LEMMA ContainedRuns ==
  ASSUME IInv, PlacesInv, NEW h, Contained(h)
  PROVE  /\ \A r : Get(h, Reg(r)) \in Value
         /\ \A r, w : Place(Tmp(w)) => Contained(park(h, r, w))
         /\ \A r, w : Place(Reg(r)) => Contained(unpark(h, r, w))
         /\ \A x, r : Place(Reg(r)) => Contained(materialize(h, x, r))
         /\ \A op, r : Contained(commit_dst(h, op, r))
<1>1. \A x, r : Place(Reg(r)) => Contained(materialize(h, x, r))
  BY ContainedPut, ContainedMove DEF materialize, Value
<1>2. \A op, r : Contained(commit_dst(h, op, r))
  BY ContainedMove, LocIsPlace DEF commit_dst
<1>3. \A r : Get(h, Reg(r)) \in Value
  BY DEF Get, Contained, Value
<1> QED
  BY <1>1, <1>2, <1>3, ContainedMove DEF park, unpark

(* What the code of an op leaves: contained places, and operands read from *)
(* them.                                                                   *)
StaysContained(h, read) ==
  (Retire(h, read) \/ Leave(h, read)) /\ Contained(h) /\ read \in Seq(Value)

(* The result of an op with a destination.                                 *)
LEMMA ResultIsValue ==
  ASSUME NEW op, Shape(op), op.dst # NoReg
  PROVE  op.dst \in Value /\ \A read : Result(op, read) \in Value
BY DEF Shape, Op, Value, Result

LEMMA ByScratchContained ==
  ASSUME IInv, PlacesInv, Contained(host), NEW op, Shape(op), op.dst # NoReg,
         ByScratch(op)
  PROVE  \E h, read : StaysContained(h, read)
<1> DEFINE d    == dest_reg(op)
           s    == scratch_not(d)
           h1   == materialize(host, op.args[1], d)
           h2   == park(h1, s, 0)
           h3   == materialize(h2, op.args[2], s)
           read == <<Get(h3, Reg(d)), Get(h3, Reg(s))>>
           h4   == Put(h3, Reg(d), Result(op, read))
           h5   == unpark(h4, s, 0)
           h6   == commit_dst(h5, op, d)
<1>1. Retire(h6, read)
  BY DEF ByScratch
<1>2. Place(Reg(d)) /\ Place(Reg(s)) /\ Place(Tmp(0))
  BY WorkPlaces
<1>3. Contained(h1)
  BY <1>2, ContainedRuns
<1> HIDE DEF d, s, h1
<1>4. Contained(h2)
  BY <1>2, <1>3, ContainedRuns
<1> HIDE DEF h2
<1>5. Contained(h3)
  BY <1>2, <1>4, ContainedRuns
<1> HIDE DEF h3
<1>6. read \in Seq(Value)
  <2>1. Get(h3, Reg(d)) \in Value /\ Get(h3, Reg(s)) \in Value
    BY <1>5, ContainedRuns
  <2> QED
    BY <2>1
<1> HIDE DEF read
<1>7. Contained(h4)
  BY <1>2, <1>5, ResultIsValue, ContainedPut
<1> HIDE DEF h4
<1>8. Contained(h5)
  BY <1>2, <1>7, ContainedRuns
<1> HIDE DEF h5
<1>9. Contained(h6)
  BY <1>8, ContainedRuns
<1> QED
  BY <1>1, <1>6, <1>9 DEF StaysContained

LEMMA ByImmediateContained ==
  ASSUME IInv, PlacesInv, Contained(host), NEW op, Shape(op), op.dst # NoReg,
         op.args[2] \in Imm, ByImmediate(op)
  PROVE  \E h, read : StaysContained(h, read)
<1> DEFINE d    == dest_reg(op)
           h1   == materialize(host, op.args[1], d)
           read == <<Get(h1, Reg(d)), op.args[2]>>
           h2   == Put(h1, Reg(d), Result(op, read))
           h3   == commit_dst(h2, op, d)
<1>1. Retire(h3, read)
  BY DEF ByImmediate
<1>2. Place(Reg(d))
  BY WorkPlaces
<1>3. Contained(h1)
  BY <1>2, ContainedRuns
<1> HIDE DEF d, h1
<1>4. read \in Seq(Value)
  <2>1. Get(h1, Reg(d)) \in Value /\ op.args[2] \in Value
    BY <1>3, ContainedRuns DEF Value
  <2> QED
    BY <2>1
<1> HIDE DEF read
<1>5. Contained(h2)
  BY <1>2, <1>3, ResultIsValue, ContainedPut
<1> HIDE DEF h2
<1>6. Contained(h3)
  BY <1>5, ContainedRuns
<1> QED
  BY <1>1, <1>4, <1>6 DEF StaysContained

LEMMA ByClContained ==
  ASSUME IInv, PlacesInv, Contained(host), NEW op, Shape(op), op.dst # NoReg,
         ByCl(op)
  PROVE  \E h, read : StaysContained(h, read)
<1> DEFINE d    == dest_reg(op)
           work == IF d = RCX THEN RAX ELSE d
           h0   == materialize(host, op.args[1], d)
           h1   == park(h0, RCX, 0)
           h2   == IF d = RCX THEN Move(park(h1, RAX, 1), Reg(RCX), Reg(RAX)) ELSE h1
           h3   == materialize(h2, op.args[2], RCX)
           read == <<Get(h3, Reg(work)), Get(h3, Reg(RCX))>>
           h4   == Put(h3, Reg(d), Result(op, read))
           h5   == IF d = RCX THEN unpark(h4, RAX, 1) ELSE unpark(h4, RCX, 0)
           h6   == commit_dst(h5, op, d)
<1>1. Retire(h6, read)
  BY DEF ByCl
<1>2. /\ Place(Reg(d)) /\ Place(Reg(RCX)) /\ Place(Reg(RAX))
      /\ Place(Tmp(0)) /\ Place(Tmp(1))
  BY WorkPlaces
<1>3. Contained(h0)
  BY <1>2, ContainedRuns
<1> HIDE DEF d, work, h0
<1>4. Contained(h1)
  BY <1>2, <1>3, ContainedRuns
<1> HIDE DEF h1
<1>5. Contained(h2)
  <2>1. Contained(park(h1, RAX, 1))
    BY <1>2, <1>4, ContainedRuns
  <2>2. Contained(Move(park(h1, RAX, 1), Reg(RCX), Reg(RAX)))
    BY <1>2, <2>1, ContainedMove
  <2> QED
    BY <1>4, <2>2
<1> HIDE DEF h2
<1>6. Contained(h3)
  BY <1>2, <1>5, ContainedRuns
<1> HIDE DEF h3
<1>7. read \in Seq(Value)
  <2>1. Get(h3, Reg(work)) \in Value /\ Get(h3, Reg(RCX)) \in Value
    BY <1>6, ContainedRuns
  <2> QED
    BY <2>1
<1> HIDE DEF read
<1>8. Contained(h4)
  BY <1>2, <1>6, ResultIsValue, ContainedPut
<1> HIDE DEF h4
<1>9. Contained(h5)
  BY <1>2, <1>8, ContainedRuns
<1> HIDE DEF h5
<1>10. Contained(h6)
  BY <1>9, ContainedRuns
<1> QED
  BY <1>1, <1>7, <1>10 DEF StaysContained

LEMMA LoadContained ==
  ASSUME IInv, PlacesInv, Contained(host), NEW op, op = block[at], Shape(op), Load
  PROVE  \E h, read : StaysContained(h, read)
<1> DEFINE d    == dest_reg(op)
           s    == scratch_not(d)
           h1   == materialize(host, op.args[1], d)
           read == <<Get(h1, Reg(d))>>
           h2   == park(h1, s, 0)
           h3   == Put(h2, Reg(s), Junk)
           h4   == unpark(h3, s, 0)
           h5   == Put(h4, Reg(d), Result(op, read))
           h6   == commit_dst(h5, op, d)
<1>1. Retire(h6, read) /\ op.dst # NoReg
  BY DEF Load, Runs, Shape, HasDst
<1>2. Place(Reg(d)) /\ Place(Reg(s)) /\ Place(Tmp(0)) /\ Junk \in Value
  BY WorkPlaces DEF Value
<1>3. Contained(h1)
  BY <1>2, ContainedRuns
<1> HIDE DEF d, s, h1
<1>4. read \in Seq(Value)
  <2>1. Get(h1, Reg(d)) \in Value
    BY <1>3, ContainedRuns
  <2> QED
    BY <2>1
<1> HIDE DEF read
<1>5. Contained(h2)
  BY <1>2, <1>3, ContainedRuns
<1> HIDE DEF h2
<1>6. Contained(h3)
  BY <1>2, <1>5, ContainedPut
<1> HIDE DEF h3
<1>7. Contained(h4)
  BY <1>2, <1>6, ContainedRuns
<1> HIDE DEF h4
<1>8. Contained(h5)
  BY <1>1, <1>2, <1>7, ResultIsValue, ContainedPut
<1> HIDE DEF h5
<1>9. Contained(h6)
  BY <1>8, ContainedRuns
<1> QED
  BY <1>1, <1>4, <1>9 DEF StaysContained

(* The ops without a destination, whose code ends in the named registers.  *)
LEMMA EffectContained ==
  ASSUME IInv, PlacesInv, Contained(host), NEW op, op = block[at], Shape(op),
         StoreOrSetFlags \/ SetState \/ SetCrField \/ Exit \/ PlainExit
  PROVE  \E h, read : StaysContained(h, read)
<1>1. /\ Place(Reg(RAX)) /\ Place(Reg(RCX)) /\ Place(Reg(RDX)) /\ Junk \in Value
  BY WorkPlaces DEF Value
<1>2. ASSUME NEW h, Contained(h)
      PROVE  /\ Contained(Put(h, Reg(RAX), Junk))
             /\ Contained(Put(h, Reg(RCX), Junk))
             /\ Contained(Put(h, Reg(RDX), Junk))
  BY <1>1, <1>2, ContainedPut
<1>3. ASSUME NEW x
      PROVE  /\ Contained(materialize(host, x, RAX))
             /\ Contained(materialize(host, x, RCX))
             /\ \A y : Contained(materialize(materialize(host, x, RAX), y, RCX))
  BY <1>1, ContainedRuns
<1>4. CASE StoreOrSetFlags
  <2> DEFINE h    == materialize(materialize(host, op.args[1], RAX), op.args[2], RCX)
             read == <<Get(h, Reg(RAX)), Get(h, Reg(RCX))>>
  <2>1. Retire(Put(Put(Put(h, Reg(RAX), Junk), Reg(RCX), Junk), Reg(RDX), Junk), read)
    BY <1>4 DEF StoreOrSetFlags
  <2>2. Contained(h)
    BY <1>3
  <2> HIDE DEF h
  <2>3. Get(h, Reg(RAX)) \in Value /\ Get(h, Reg(RCX)) \in Value
    BY <2>2, ContainedRuns
  <2>4. read \in Seq(Value)
    BY <2>3
  <2>5. Contained(Put(Put(Put(h, Reg(RAX), Junk), Reg(RCX), Junk), Reg(RDX), Junk))
    BY <1>2, <2>2
  <2> QED
    BY <2>1, <2>4, <2>5 DEF StaysContained
<1>5. CASE SetState
  <2> DEFINE h    == materialize(host, op.args[1], RAX)
             read == <<Get(h, Reg(RAX))>>
  <2>1. Retire(h, read)
    BY <1>5 DEF SetState
  <2>2. Contained(h)
    BY <1>3
  <2>3. Get(h, Reg(RAX)) \in Value
    BY <2>2, ContainedRuns
  <2>4. read \in Seq(Value)
    BY <2>3
  <2> QED
    BY <2>1, <2>2, <2>4 DEF StaysContained
<1>6. CASE SetCrField
  <2> DEFINE h    == materialize(host, op.args[1], RCX)
             read == <<Get(h, Reg(RCX))>>
  <2>1. Retire(Put(Put(h, Reg(RAX), Junk), Reg(RCX), Junk), read)
    BY <1>6 DEF SetCrField
  <2>2. Contained(h)
    BY <1>3
  <2> HIDE DEF h
  <2>3. Get(h, Reg(RCX)) \in Value
    BY <2>2, ContainedRuns
  <2>4. read \in Seq(Value)
    BY <2>3
  <2>5. Contained(Put(Put(h, Reg(RAX), Junk), Reg(RCX), Junk))
    BY <1>2, <2>2
  <2> QED
    BY <2>1, <2>4, <2>5 DEF StaysContained
<1>7. CASE Exit
  <2> DEFINE h    == materialize(host, op.args[1], RAX)
             read == <<Get(h, Reg(RAX))>>
  <2>1. Leave(Put(h, Reg(RAX), Junk), read)
    BY <1>7 DEF Exit
  <2>2. Contained(h)
    BY <1>3
  <2> HIDE DEF h
  <2>3. Get(h, Reg(RAX)) \in Value
    BY <2>2, ContainedRuns
  <2>4. read \in Seq(Value)
    BY <2>3
  <2>5. Contained(Put(h, Reg(RAX), Junk))
    BY <1>2, <2>2
  <2> QED
    BY <2>1, <2>4, <2>5 DEF StaysContained
<1>8. CASE PlainExit
  <2>1. Leave(Put(host, Reg(RAX), Junk), <<>>)
    BY <1>8 DEF PlainExit
  <2>2. Contained(Put(host, Reg(RAX), Junk)) /\ <<>> \in Seq(Value)
    BY <1>2
  <2> QED
    BY <2>1, <2>2 DEF StaysContained
<1> QED
  BY <1>4, <1>5, <1>6, <1>7, <1>8

LEMMA GetStateContained ==
  ASSUME IInv, PlacesInv, Contained(host), NEW op, op = block[at], Shape(op), GetState
  PROVE  \E h, read : StaysContained(h, read)
<1> DEFINE d  == dest_reg(op)
           h1 == Put(host, Reg(d), Result(op, <<>>))
<1>1. Retire(commit_dst(h1, op, d), <<>>) /\ op.dst # NoReg
  BY DEF GetState, Runs, Shape, HasDst
<1>2. Contained(h1)
  BY <1>1, WorkPlaces, ResultIsValue, ContainedPut
<1> HIDE DEF h1, d
<1>3. Contained(commit_dst(h1, op, d)) /\ <<>> \in Seq(Value)
  BY <1>2, ContainedRuns
<1> QED
  BY <1>1, <1>3 DEF StaysContained

(* The two operands of a vector op.                                        *)
LEMMA VecContained ==
  ASSUME IInv, PlacesInv, Contained(host), NEW op
  PROVE  /\ Contained(VecHost(op))
         /\ VecRead(op) \in Seq(Value)
<1>1. Contained(materialize(host, op.args[1], dest_reg(op)))
  BY WorkPlaces, ContainedRuns
<1>2. Contained(VecHost(op))
  BY <1>1, WorkPlaces, ContainedRuns DEF VecHost
<1>3. /\ Get(VecHost(op), Reg(dest_reg(op))) \in Value
      /\ Get(VecHost(op), Reg(RCX)) \in Value
  BY <1>2, ContainedRuns
<1>4. VecRead(op) \in Seq(Value)
  BY <1>3 DEF VecRead
<1> QED
  BY <1>2, <1>4

LEMMA VectorContained ==
  ASSUME IInv, PlacesInv, Contained(host), NEW op, op = block[at], Shape(op),
         Vec \/ Fma
  PROVE  \E h, read : StaysContained(h, read)
<1> DEFINE d == dest_reg(op)
<1>1. op.dst # NoReg /\ Place(Reg(d)) /\ Place(Reg(RCX)) /\ Junk \in Value
  BY WorkPlaces DEF Vec, Fma, Runs, Shape, HasDst, Value
<1>2. CASE Vec
  <2> DEFINE h1 == Put(VecHost(op), Reg(d), Result(op, VecRead(op)))
  <2>1. Retire(commit_dst(h1, op, d), VecRead(op))
    BY <1>2 DEF Vec
  <2>2. Contained(h1)
    BY <1>1, VecContained, ResultIsValue, ContainedPut
  <2> HIDE DEF h1
  <2>3. Contained(commit_dst(h1, op, d))
    BY <2>2, ContainedRuns
  <2> QED
    BY <2>1, <2>3, VecContained DEF StaysContained
<1>3. CASE Fma
  <2> DEFINE prod == IF VecRead(op) = <<op.args[1], op.args[2]>> THEN op.dst ELSE Junk
             h1   == Put(VecHost(op), Reg(d), prod)
             h2   == commit_dst(h1, op, d)
             h3   == materialize(h2, op.args[3], RCX)
             read == Append(VecRead(op), Get(h3, Reg(RCX)))
             sum  == IF Get(h3, Reg(d)) = prod THEN Result(op, read) ELSE Junk
             h4   == Put(h3, Reg(d), sum)
  <2>1. Retire(commit_dst(h4, op, d), read)
    BY <1>3 DEF Fma
  <2>2. prod \in Value
    BY <1>1, ResultIsValue
  <2> HIDE DEF prod
  <2>3. Contained(h1)
    BY <1>1, <2>2, VecContained, ContainedPut
  <2> HIDE DEF h1
  <2>4. Contained(h2)
    BY <2>3, ContainedRuns
  <2> HIDE DEF h2
  <2>5. Contained(h3)
    BY <1>1, <2>4, ContainedRuns
  <2> HIDE DEF h3
  <2>6. read \in Seq(Value)
    <3>1. Get(h3, Reg(RCX)) \in Value
      BY <2>5, ContainedRuns
    <3> QED
      BY <3>1, VecContained, AppendProperties
  <2> HIDE DEF read
  <2>7. sum \in Value
    BY <1>1, ResultIsValue
  <2> HIDE DEF sum
  <2>8. Contained(h4)
    BY <1>1, <2>5, <2>7, ContainedPut
  <2> HIDE DEF h4
  <2>9. Contained(commit_dst(h4, op, d))
    BY <2>8, ContainedRuns
  <2> QED
    BY <2>1, <2>6, <2>9 DEF StaysContained
<1> QED
  BY <1>2, <1>3

(* The code of every op.                                                   *)
LEMMA RunOpContained ==
  ASSUME IInv, PlacesInv, Contained(host), Shape(block[at]), RunOp
  PROVE  \E h, read : StaysContained(h, read)
<1> DEFINE op == block[at]
<1>1. CASE Binop
  <2>1. op.dst # NoReg /\ ((op.args[2] \in Imm /\ ByImmediate(op)) \/ ByScratch(op))
    BY <1>1 DEF Binop, Runs, Shape, HasDst
  <2> QED
    BY <2>1, ByImmediateContained, ByScratchContained
<1>2. CASE Mul
  <2>1. op.dst # NoReg /\ ByScratch(op)
    BY <1>2 DEF Mul, Runs, Shape, HasDst
  <2> QED
    BY <2>1, ByScratchContained
<1>3. CASE Shift
  <2>1. op.dst # NoReg /\ IF op.args[2] \in Imm THEN ByImmediate(op) ELSE ByCl(op)
    BY <1>3 DEF Shift, Runs, Shape, HasDst
  <2> QED
    BY <2>1, ByImmediateContained, ByClContained
<1>4. CASE Load
  BY <1>4, LoadContained
<1>5. CASE StoreOrSetFlags \/ SetState \/ SetCrField \/ Exit \/ PlainExit
  BY <1>5, EffectContained
<1>6. CASE GetState
  BY <1>6, GetStateContained
<1>7. CASE Vec \/ Fma
  BY <1>7, VectorContained
<1> QED
  BY <1>1, <1>2, <1>3, <1>4, <1>5, <1>6, <1>7 DEF RunOp

(* The places of the run, on top of the invariant of its values.           *)
ContainedInv ==
  /\ EmitInv
  /\ PlacesInv
  /\ SpillBudget
  /\ Contained(host)
  /\ pc # "done" => host = EmptyMap
  /\ seen \in Seq(Seq(Value))
  /\ Len(seen) < at

LEMMA ContainedInit == EmitInit => ContainedInv
<1> SUFFICES ASSUME EmitInit PROVE ContainedInv
  OBVIOUS
<1>1. EmitInv /\ PlacesInv /\ SpillBudget
  BY EmitInvInit, PlacesInit, BudgetInit DEF EmitInit
<1>2. host = EmptyMap /\ seen = <<>> /\ at = 1
  BY DEF EmitInit
<1>3. Contained(host) /\ seen \in Seq(Seq(Value)) /\ Len(seen) < at
  BY <1>2, EmptySeq DEF Contained, EmptyMap
<1> QED
  BY <1>1, <1>2, <1>3 DEF ContainedInv

LEMMA ContainedAllocate == ContainedInv /\ Allocate => ContainedInv'
<1> SUFFICES ASSUME ContainedInv, Allocate PROVE ContainedInv'
  OBVIOUS
<1>1. Next /\ UNCHANGED <<host, at, seen>>
  BY DEF Allocate, emitVars
<1>2. EmitInv' /\ PlacesInv' /\ SpillBudget'
  BY <1>1, EmitInvAllocate, PlacesNext, BudgetNext DEF ContainedInv, EmitInv
<1>3. CASE pc # "done"
  <2>1. host' = EmptyMap
    BY <1>1, <1>3 DEF ContainedInv
  <2>2. Contained(host)'
    BY <2>1 DEF Contained, EmptyMap
  <2> QED
    BY <1>1, <1>2, <2>1, <2>2 DEF ContainedInv
<1>4. CASE pc = "done"
  <2>1. UNCHANGED vars
    BY <1>1, <1>4 DEF Next, ScanOp, CollectIntervals, NextInterval, Expire,
                      Retain, Swept, PlaceInFree, PlaceBySpilling, Finish, Returned
  <2>2. UNCHANGED <<next_spill, pc>>
    BY <2>1 DEF vars
  <2>3. Contained(host)'
    BY <1>1, <2>2 DEF ContainedInv, Contained, Place
  <2> QED
    BY <1>1, <1>2, <2>2, <2>3 DEF ContainedInv
<1> QED
  BY <1>3, <1>4

LEMMA ContainedRunOp == ContainedInv /\ RunOp => ContainedInv'
<1> SUFFICES ASSUME ContainedInv, RunOp PROVE ContainedInv'
  OBVIOUS
<1>1. pc = "done" /\ at \in 1..Len(block) /\ Len(block) \in Nat
  BY RunOpShape, BlockFacts DEF ContainedInv, EmitInv
<1>2. PICK h, read : StaysContained(h, read)
  BY <1>1, BlockFacts, RunOpContained DEF ContainedInv, EmitInv
<1>3. /\ host' = h /\ seen' = Append(seen, read)
      /\ at' = at + 1 \/ at' = Len(block) + 1
      /\ UNCHANGED vars
      /\ Contained(h) /\ read \in Seq(Value)
  BY <1>2 DEF StaysContained, Retire, Leave
<1>4. UNCHANGED <<pc, next_spill>>
  BY <1>3 DEF vars
<1>5. EmitInv' /\ PlacesInv' /\ SpillBudget'
  BY <1>3, EmitInvRunOp, PlacesNext, BudgetNext DEF ContainedInv, EmitInv
<1>6. Contained(host)'
  BY <1>3, <1>4 DEF Contained, Place
<1>7. /\ seen' \in Seq(Seq(Value)) /\ Len(seen') = Len(seen) + 1
      /\ Len(seen) \in Nat /\ Len(seen) < at
  BY <1>3, AppendProperties, LenProperties DEF ContainedInv
<1>8. Len(seen') < at'
  BY <1>1, <1>3, <1>7
<1> QED
  BY <1>1, <1>4, <1>5, <1>6, <1>7, <1>8 DEF ContainedInv

(* Every step of the emitted code and of the allocator preserves it.       *)
LEMMA ContainedInvHolds == EmitSpec => []ContainedInv
<1>1. ContainedInv /\ [EmitNext]_<<vars, emitVars>> => ContainedInv'
  <2> SUFFICES ASSUME ContainedInv, [EmitNext]_<<vars, emitVars>> PROVE ContainedInv'
    OBVIOUS
  <2>1. CASE UNCHANGED <<vars, emitVars>>
    <3>1. UNCHANGED <<block, pc, free, active, next_spill, map, host, at, seen>>
      BY <2>1 DEF vars, emitVars
    <3>2. IInv' /\ PressureInv' /\ PlacesInv' /\ SpillBudget'
      BY <2>1, NextIInv, PressureNext, PlacesNext, BudgetNext DEF ContainedInv, EmitInv
    <3>3. InPlace' /\ (pc = "done" /\ ClobberFree => OperandsIntact)'
      BY <3>1, SameAllocation DEF ContainedInv, EmitInv, InPlace, OperandsIntact
    <3>4. EmitInv'
      BY <3>1, <3>2, <3>3 DEF ContainedInv, EmitInv
    <3>5. Contained(host)'
      BY <3>1 DEF ContainedInv, Contained, Place
    <3> QED
      BY <3>1, <3>2, <3>4, <3>5 DEF ContainedInv
  <2> QED
    BY <2>1, ContainedAllocate, ContainedRunOp DEF EmitNext
<1> QED
  BY <1>1, ContainedInit, PTL DEF EmitSpec

(* What the places hold and the ops have read is of the types of the run.  *)
THEOREM EmitTypeCorrect == EmitSpec => []EmitTypeOK
<1>1. ContainedInv => EmitTypeOK
  <2> SUFFICES ASSUME ContainedInv PROVE EmitTypeOK
    OBVIOUS
  <2>1. ASSUME NEW l \in DOMAIN host
        PROVE  /\ host[l] \in Value
               /\ l \in Location \cup {Reg(r) : r \in {RAX, RCX, RDX}} \cup {Tmp(0), Tmp(1)}
    <3>1. host[l] \in Value /\ Place(l)
      BY <2>1 DEF ContainedInv, Contained
    <3>2. ASSUME NEW j \in 1..Len(HostGprs) PROVE Reg(HostGprs[j]) \in Location
      <4>1. HostGprs[j] \in HostGpr
        BY <3>2, PoolAssumption, ElementOfSeq
      <4> QED
        BY <4>1 DEF Reg, Location
    <3>3. ASSUME NEW w \in 0..1 PROVE Tmp(w) \in {Tmp(0), Tmp(1)}
      <4>1. w = 0 \/ w = 1
        BY <3>3
      <4> QED
        BY <4>1
    <3> QED
      BY <3>1, <3>2, <3>3 DEF Place
  <2> QED
    BY <2>1 DEF ContainedInv, EmitInv, EmitTypeOK, Value
<1> QED
  BY <1>1, ContainedInvHolds, PTL

(* In code of any block, with any pool, nothing is written behind the      *)
(* spill area unless the block names more vregs than the pool has          *)
(* registers and the area slots: an eviction leaves as many values in      *)
(* registers as the pool has, and takes one slot.                          *)
THEOREM CodeStaysInSpillArea == EmitSpec => []SpillAreaIsEnough
<1>1. ContainedInv => SpillAreaIsEnough
  <2> SUFFICES ASSUME ContainedInv,
                      Cardinality(Named) <= Len(HostGprs) + SpillSlots,
                      NEW l \in DOMAIN host, l.kind = "Spill"
               PROVE  l.offset + SlotBytes <= SlotBytes * SpillSlots
    BY DEF SpillAreaIsEnough
  <2>1. l \in Location /\ HandedOut(l.offset, next_spill)
    BY DEF ContainedInv, Contained, Place, Reg, Tmp
  <2>2. l.offset \in Nat /\ next_spill \in Nat /\ l.offset + SlotBytes <= next_spill
    BY <2>1 DEF ContainedInv, EmitInv, IInv, TypeOK, HandedOut, SlotBytes
  <2>3. next_spill <= SlotBytes * (Cardinality(DOMAIN map) - Len(HostGprs))
    BY <2>2 DEF ContainedInv, SpillBudget, SlotBytes
  <2>4. pc = "done"
    BY DEF ContainedInv, EmptyMap
  <2>5. DOMAIN first = Named
    <3>1. i = Len(block) + 1 /\ Len(block) \in Nat
      BY <2>4, LenProperties DEF ContainedInv, EmitInv, IInv, TypeOK, ScanInv
    <3>2. \A v \in DOMAIN first : first[v] \in 1..(i - 1) /\ v \in Touched(block[first[v]])
      BY DEF ContainedInv, EmitInv, IInv, ScanInv
    <3>3. \A n \in 1..(i - 1) : \A v \in Touched(block[n]) : v \in DOMAIN first
      BY DEF ContainedInv, EmitInv, IInv, ScanInv
    <3>4. 1..(i - 1) = 1..Len(block)
      BY <3>1
    <3>5. ASSUME NEW v \in DOMAIN first PROVE v \in Named
      <4>1. first[v] \in 1..Len(block) /\ v \in Touched(block[first[v]])
        BY <3>2, <3>4
      <4> QED
        BY <4>1 DEF Named
    <3>6. ASSUME NEW v \in Named PROVE v \in DOMAIN first
      BY <3>3, <3>4 DEF Named
    <3> QED
      BY <3>5, <3>6
  <2>6. IsFiniteSet(Named)
    BY <2>5 DEF ContainedInv, EmitInv, PressureInv
  <2>7. DOMAIN map \subseteq Named
    BY <2>4, <2>5 DEF ContainedInv, EmitInv, IInv, OrderInv
  <2>8. /\ Cardinality(DOMAIN map) \in Nat /\ Cardinality(Named) \in Nat
        /\ Cardinality(DOMAIN map) <= Cardinality(Named)
    BY <2>6, <2>7, FS_Subset, FS_CardinalityType
  <2>9. Len(HostGprs) \in Nat /\ SpillSlots \in Nat
    BY PoolAssumption, LenProperties, EmitAssumption
  <2> QED
    BY <2>2, <2>3, <2>8, <2>9 DEF SlotBytes
<1> QED
  BY <1>1, ContainedInvHolds, PTL
=============================================================================
